---------------------------- MODULE Spec2Model ----------------------------
(***************************************************************************)
(* GTStore: a replicated in-memory key-value store on a consistent-hash    *)
(* ring (src/gtstore/src).  The module models the storage node's request   *)
(* dispatch and write path (storage.cpp), the client's put/get loops       *)
(* (client.cpp) and the text formats they exchange (utils.cpp).            *)
(*                                                                         *)
(* Strings are sequences of one-character strings, so that the splitting,  *)
(* joining and searching the code performs on payloads is computed and not *)
(* assumed.  A fixed text that is never parsed ("node_paused", "locked: ") *)
(* is written as a single element.                                         *)
(***************************************************************************)
EXTENDS Integers, Sequences, FiniteSets, TLC

-----------------------------------------------------------------------------
(* Bounds of the model *)

\* number of connection-handler threads that can exist at the same time
MaxThreads == 2
\* the clients of the cluster
MaxClients == 1

-----------------------------------------------------------------------------
(* Program constants *)

MAX_KEY_BYTE_PER_REQUEST == 20
MAX_VALUE_BYTE_PER_REQUEST == 1000

-----------------------------------------------------------------------------
(* std::string helpers *)

Min(a, b) == IF a < b THEN a ELSE b
Max(a, b) == IF a < b THEN b ELSE a

\* std::string::npos: "not found"
npos == 0 - 1

\* s.find(c): 0-based position of the first c in s, or npos
find(s, c) ==
    IF \E i \in 1..Len(s) : s[i] = c
    THEN (CHOOSE i \in 1..Len(s) : s[i] = c /\ \A j \in 1..(i - 1) : s[j] # c) - 1
    ELSE npos

\* s.substr(pos): the tail from 0-based pos; s.substr(pos, n): n characters
substr(s, pos) == SubSeq(s, pos + 1, Len(s))
substr2(s, pos, n) == SubSeq(s, pos + 1, Min(Len(s), pos + n))

\* The pieces std::getline extracts: every delimiter ends a piece; the text
\* after the last delimiter is a piece only when it is not empty.
RECURSIVE split(_, _)
split(input, delimiter) ==
    IF input = <<>> THEN <<>>
    ELSE LET p == find(input, delimiter) IN
         IF p = npos THEN <<input>>
         ELSE <<substr2(input, 0, p)>> \o split(substr(input, p + 1), delimiter)

\* join: the parts with the delimiter between neighbours
RECURSIVE join(_, _)
join(parts, delimiter) ==
    IF parts = <<>> THEN <<>>
    ELSE IF Len(parts) = 1 THEN parts[1]
    ELSE parts[1] \o <<delimiter>> \o join(Tail(parts), delimiter)

isspace(c) == c \in {" ", "\t", "\n"}

\* trim: whitespace removed from both ends
RECURSIVE trim(_)
trim(value) ==
    IF value = <<>> THEN <<>>
    ELSE IF isspace(value[1]) THEN trim(Tail(value))
    ELSE IF isspace(value[Len(value)]) THEN trim(SubSeq(value, 1, Len(value) - 1))
    ELSE value

-----------------------------------------------------------------------------
(* Numbers in text: std::to_string, std::stoi / stoul / stoull *)

Digits == <<"0", "1", "2", "3", "4", "5", "6", "7", "8", "9">>
isdigit(c) == \E d \in 1..10 : Digits[d] = c
DigitVal(c) == (CHOOSE d \in 1..10 : Digits[d] = c) - 1

\* std::to_string of an unsigned number
RECURSIVE to_string(_)
to_string(n) ==
    IF n < 10 THEN <<Digits[n + 1]>>
    ELSE to_string(n \div 10) \o <<Digits[(n % 10) + 1]>>

\* the value of the longest run of digits at the front of s, given the value so far
RECURSIVE DigitRun(_, _)
DigitRun(s, acc) ==
    IF s = <<>> \/ ~isdigit(s[1]) THEN acc
    ELSE DigitRun(Tail(s), acc * 10 + DigitVal(s[1]))

RECURSIVE SkipSpace(_)
SkipSpace(s) == IF s # <<>> /\ isspace(s[1]) THEN SkipSpace(Tail(s)) ELSE s

\* std::stoi, std::stoul, std::stoull: leading whitespace and one sign are skipped,
\* then the longest run of digits is converted and the rest ignored; with no digit
\* the call throws std::invalid_argument.  A "-" negates the value (for the unsigned
\* conversions the negative number stands for its wrap-around modulo 2^64).
StrToNum(s) ==
    LET t == SkipSpace(s)
        neg == t # <<>> /\ t[1] = "-"
        u == IF t # <<>> /\ t[1] \in {"+", "-"} THEN Tail(t) ELSE t
    IN  IF u = <<>> \/ ~isdigit(u[1])
        THEN [threw |-> TRUE, val |-> 0]
        ELSE [threw |-> FALSE, val |-> IF neg THEN 0 - DigitRun(u, 0) ELSE DigitRun(u, 0)]

\* static_cast<uint16_t>
ToU16(v) == v % 65536

-----------------------------------------------------------------------------
(* The routing table and its text form (utils.cpp) *)

\* struct StorageNodeInfo with its NodeAddress
StorageNodeInfo(id, host, port, token) ==
    [node_id |-> id, address |-> [host |-> host, port |-> port], token |-> token]

\* a build_table_payload that separates the rows as it separates the columns
build_table_payload_comma(nodes, K) ==
    LET row(node) == node.node_id \o <<",">> \o node.address.host \o <<",">>
                     \o to_string(node.address.port) \o <<",">> \o to_string(node.token)
        rows == [i \in 1..Len(nodes) |-> row(nodes[i])]
    IN  to_string(K) \o <<"#">> \o join(rows, ",")

\* build_table_payload: K "#" row ";" row ..., each row id "," host "," port "," token
build_table_payload(nodes, K) ==
    LET row(node) == node.node_id \o <<",">> \o node.address.host \o <<",">>
                     \o to_string(node.address.port) \o <<",">> \o to_string(node.token)
        rows == [i \in 1..Len(nodes) |-> row(nodes[i])]
    IN  to_string(K) \o <<"#">> \o join(rows, ";")

\* the rows of a table section, in order; rows that are empty or do not have four
\* columns are skipped; a row whose port or token is no number makes stoi throw
RECURSIVE ParseRows(_)
ParseRows(rows) ==
    IF rows = <<>> THEN [threw |-> FALSE, nodes |-> <<>>]
    ELSE LET cols == split(rows[1], ",")
             rest == ParseRows(Tail(rows))
         IN  IF rows[1] = <<>> \/ Len(cols) # 4 THEN rest
             ELSE LET port == StrToNum(cols[3])
                      token == StrToNum(cols[4])
                  IN  IF port.threw \/ token.threw
                      THEN [threw |-> TRUE, nodes |-> <<>>]
                      ELSE [threw |-> rest.threw,
                            nodes |-> <<StorageNodeInfo(trim(cols[1]), trim(cols[2]),
                                                        ToU16(port.val), token.val)>>
                                      \o rest.nodes]

\* parse_table_payload: the replication factor (1 when absent or not a number) and
\* the entries; threw when a conversion of a port or token threw
parse_table_payload(payload) ==
    LET hash_pos == find(payload, "#")
        prefix == IF hash_pos = npos THEN <<>> ELSE trim(substr2(payload, 0, hash_pos))
        factor == IF prefix = <<>> \/ StrToNum(prefix).threw THEN 1 ELSE StrToNum(prefix).val
        table_section == IF hash_pos = npos THEN payload ELSE substr(payload, hash_pos + 1)
        parsed == ParseRows(split(table_section, ";"))
    IN  [threw |-> parsed.threw, replication_factor |-> factor, nodes |-> parsed.nodes]

-----------------------------------------------------------------------------
(* The storage processes and what identifies them *)

\* the storage processes of the model
Nodes == {"p", "q"}

\* GTSTORE_NODE_LABEL and the listening address of a storage process
storage_id(n) == <<n>>
addr(n) == [host |-> <<"h">>, port |-> IF n = "p" THEN 1 ELSE 2]

\* the entry of node n for one token
Entry(n, token) == StorageNodeInfo(storage_id(n), addr(n).host, addr(n).port, token)

Threads == 1..MaxThreads

VARIABLES
    kv_store,            \* per node: key -> value, the keys present being its domain
    key_locks,           \* per node: key -> holder, the locked keys being its domain
    paused,              \* per node: the paused flag
    routing_table,       \* per node: the ring the manager pushed
    replication_factor,  \* per node: the K the manager pushed
    up,                  \* per node: the process listens (connect succeeds)
    thr,                 \* the connection-handler threads of serve_clients
    hashv,               \* std::hash<string> of this build, on the keys used
    quiescence,          \* per node: what the manager has observed of pause/availability
    cl,                  \* the clients
    node_table,          \* the manager's ring
    manager_K,           \* the manager's replication factor
    heartbeat_times,     \* the manager's map: node id -> time of the last heartbeat
    now,                 \* the steady clock, in seconds
    mon,                 \* the manager's monitor thread
    reg,                 \* per node: the manager's handler of its STORAGE_REGISTER
    codec,               \* a table on its way through build and parse
    pass                 \* the manager's rebalance passes: what each has sent and has left to do

\* what no step of a storage thread changes
rest_vars ==
    <<up, hashv, cl, node_table, manager_K, heartbeat_times, now, mon, reg, codec, pass>>
vars == <<kv_store, key_locks, paused, routing_table, replication_factor, up,
          thr, hashv, quiescence, cl, node_table, manager_K, heartbeat_times, now,
          mon, reg, codec, pass>>

\* std::hash<string>{}(key)
std_hash(key) == hashv[key]

\* a message: its type and payload
Message(t, p) == [type |-> t, payload |-> p]
NoReply == Message("none", <<>>)

\* unordered_map: insert or overwrite, and erase
MapPut(m, k, v) == [x \in DOMAIN m \cup {k} |-> IF x = k THEN v ELSE m[x]]
MapErase(m, k) == [x \in DOMAIN m \ {k} |-> m[x]]
EmptyMap == [x \in {} |-> <<>>]

\* connect_to_host: the listening process at the address, "none" when connect fails
connect_to_host(address) ==
    IF \E n \in Nodes : addr(n) = address /\ up[n]
    THEN CHOOSE n \in Nodes : addr(n) = address /\ up[n]
    ELSE "none"

-----------------------------------------------------------------------------
(* Validation and parsing of a put payload (handle_put, storage.cpp:75-100) *)

\* key_valid without the upper limit
key_valid_unbounded(key) == key # <<>>

key_valid(key) == key # <<>> /\ Len(key) <= MAX_KEY_BYTE_PER_REQUEST
value_valid(value) == Len(value) <= MAX_VALUE_BYTE_PER_REQUEST

\* the pairs in order; the first pair that is malformed or invalid decides the error
RECURSIVE ParsePairs(_)
ParsePairs(pairs) ==
    IF pairs = <<>> THEN [err |-> NoReply, kv |-> <<>>]
    ELSE LET kv_pair == pairs[1]
             pos == find(kv_pair, "|")
             key == substr2(kv_pair, 0, pos)
             value == substr(kv_pair, pos + 1)
             rest == ParsePairs(Tail(pairs))
         IN  IF pos = npos
             THEN [err |-> Message("ERROR", <<"bad put format: ">> \o kv_pair), kv |-> <<>>]
             ELSE IF ~key_valid(key)
             THEN [err |-> Message("ERROR", <<"bad key: ">> \o key), kv |-> <<>>]
             ELSE IF ~value_valid(value)
             THEN [err |-> Message("ERROR", <<"bad value for key: ">> \o key), kv |-> <<>>]
             ELSE [err |-> rest.err,
                   kv |-> IF rest.err = NoReply
                          THEN <<[key |-> key, value |-> value]>> \o rest.kv ELSE <<>>]

ParsePut(payload) ==
    IF split(payload, ";") = <<>>
    THEN [err |-> Message("ERROR", <<"no pairs">>), kv |-> <<>>]
    ELSE ParsePairs(split(payload, ";"))

-----------------------------------------------------------------------------
(* The connection-handler threads of GTStoreStorage::serve_clients *)

\* A thread serves one connection: it receives one message, reads the paused flag,
\* handles the message, replies and closes.  owner is the peer that reads the reply:
\* "env" (a peer outside the model), <<"client", c>>, <<"thread", h>> (a primary
\* waiting for its REPL_PUT) or "gone" once the peer has read the reply.  sent lists
\* the ids of the entries a primary has sent REPL_PUT to.
FreeThread ==
    [pc |-> "free", node |-> "none", type |-> "none", payload |-> <<>>,
     is_paused |-> FALSE, kv_pairs |-> <<>>, acquired_locks |-> <<>>, i |-> 0,
     cur_idx |-> 0 - 1, primary_idx |-> 0, rep |-> 0, successful_replicas |-> 0,
     child |-> 0, sent |-> <<>>, reply |-> NoReply, owner |-> "none"]

\* recv_message, then the read of paused under pause_mutex (storage.cpp:274-285)
NewThread(n, type, payload, owner) ==
    [FreeThread EXCEPT !.pc = "dispatch", !.node = n, !.type = type,
                       !.payload = payload, !.is_paused = paused[n], !.owner = owner]

\* close(client_fd): the thread ends; its slot is kept until the peer has read the reply
Finish(t) == IF t.owner = "gone" THEN FreeThread ELSE [t EXCEPT !.pc = "done"]

\* the thread replies and ends
ReplyAndFinish(t, reply) == Finish([t EXCEPT !.reply = reply])

\* the peer of thread h reads its reply and closes its end of the connection
ReadReply(threads, h) ==
    [threads EXCEPT ![h] = IF @.pc = "done" THEN FreeThread ELSE [@ EXCEPT !.owner = "gone"]]

\* the types with a case in the switch of serve_clients
HandledTypes ==
    {"PAUSE_NODE", "RESUME_NODE", "AVAILABILITY_CHECK", "CLIENT_PUT", "REPL_PUT",
     "CLIENT_GET", "MANAGER_GET", "MANAGER_DELETE", "GET_ALL_KEYS", "TABLE_PUSH"}

\* a PAUSE_NODE that flips the flag
PauseNodeFlips(h) ==
    /\ thr[h].pc = "dispatch" /\ thr[h].type = "PAUSE_NODE"
    /\ paused' = [paused EXCEPT ![thr[h].node] = ~@]
    /\ thr' = [thr EXCEPT ![h] = ReplyAndFinish(@, Message("PAUSE_ACK", <<"paused">>))]
    /\ quiescence' = [quiescence EXCEPT ![thr[h].node] = IF @ = "quiet" THEN @ ELSE "acked"]
    /\ UNCHANGED <<kv_store, key_locks, routing_table, replication_factor, rest_vars>>

\* case PAUSE_NODE
PauseNode(h) ==
    /\ thr[h].pc = "dispatch" /\ thr[h].type = "PAUSE_NODE"
    /\ paused' = [paused EXCEPT ![thr[h].node] = TRUE]
    /\ thr' = [thr EXCEPT ![h] = ReplyAndFinish(@, Message("PAUSE_ACK", <<"paused">>))]
    /\ quiescence' = [quiescence EXCEPT ![thr[h].node] = IF @ = "quiet" THEN @ ELSE "acked"]
    /\ UNCHANGED <<kv_store, key_locks, routing_table, replication_factor, rest_vars>>

\* case RESUME_NODE
ResumeNode(h) ==
    /\ thr[h].pc = "dispatch" /\ thr[h].type = "RESUME_NODE"
    /\ paused' = [paused EXCEPT ![thr[h].node] = FALSE]
    /\ thr' = [thr EXCEPT ![h] = ReplyAndFinish(@, Message("RESUME_ACK", <<"resumed">>))]
    /\ quiescence' = [quiescence EXCEPT ![thr[h].node] = "none"]
    /\ UNCHANGED <<kv_store, key_locks, routing_table, replication_factor, rest_vars>>

\* an availability that does not look at the lock table
is_available_always(locks) == TRUE

\* is_available = key_locks.empty() under lock_manager_mutex
is_available(locks) == DOMAIN locks = {}

\* case AVAILABILITY_CHECK
AvailabilityCheck(h) ==
    LET n == thr[h].node
        status == IF is_available(key_locks[n]) THEN <<"yes">> ELSE <<"no">>
    IN  /\ thr[h].pc = "dispatch" /\ thr[h].type = "AVAILABILITY_CHECK"
        /\ thr' = [thr EXCEPT ![h] = ReplyAndFinish(@, Message("AVAILABLE_STATUS", status))]
        /\ quiescence' = [quiescence EXCEPT ![n] =
                             IF @ = "acked" /\ status = <<"yes">> THEN "quiet" ELSE @]
        /\ UNCHANGED <<kv_store, key_locks, paused, routing_table, replication_factor, rest_vars>>

\* a guard that refuses every request once the flag read was set
RefusedWhenPausedAnyType(t) == t.is_paused

\* the guard of case CLIENT_PUT and case CLIENT_GET: the request is refused when
\* the flag read at the top of the dispatch was set
RefusedWhenPaused(t) == t.type \in {"CLIENT_PUT", "CLIENT_GET"} /\ t.is_paused

RejectPaused(h) ==
    /\ thr[h].pc = "dispatch" /\ RefusedWhenPaused(thr[h])
    /\ thr' = [thr EXCEPT ![h] = ReplyAndFinish(@, Message("ERROR", <<"node_paused">>))]
    /\ UNCHANGED <<kv_store, key_locks, paused, routing_table, replication_factor, quiescence, rest_vars>>

\* default: a type without a case
UnknownType(h) ==
    /\ thr[h].pc = "dispatch" /\ thr[h].type \notin HandledTypes
    /\ thr' = [thr EXCEPT ![h] = ReplyAndFinish(@, Message("ERROR", <<"unknown">>))]
    /\ UNCHANGED <<kv_store, key_locks, paused, routing_table, replication_factor, quiescence, rest_vars>>

-----------------------------------------------------------------------------
(* handle_put *)

\* a REPL_PUT handler that takes the path of a primary
is_primary_any_put(t) == t.type \in {"CLIENT_PUT", "REPL_PUT"}

\* the third argument of handle_put: true in case CLIENT_PUT only
is_primary(t) == t.type = "CLIENT_PUT"

\* the start of handle_put: the payload is split and validated (storage.cpp:75-100)
HandlePut(h) ==
    LET t == thr[h]
        parsed == ParsePut(t.payload)
    IN  /\ t.pc = "dispatch" /\ t.type \in {"CLIENT_PUT", "REPL_PUT"}
        /\ ~RefusedWhenPaused(t)
        /\ thr' = [thr EXCEPT ![h] =
                      IF parsed.err # NoReply THEN ReplyAndFinish(t, parsed.err)
                      ELSE [t EXCEPT !.kv_pairs = parsed.kv, !.i = 0,
                                     !.pc = IF is_primary(t) THEN "lock" ELSE "write"]]
        /\ UNCHANGED <<kv_store, key_locks, paused, routing_table, replication_factor, quiescence, rest_vars>>

\* a try_acquire_lock that records the holder without looking for one
try_acquire_lock_unchecked(locks, key, client_id) ==
    [ok |-> TRUE, locks |-> MapPut(locks, key, client_id)]

\* try_acquire_lock: fails when the key has a holder, else records the holder
try_acquire_lock(locks, key, client_id) ==
    IF key \in DOMAIN locks
    THEN [ok |-> FALSE, locks |-> locks]
    ELSE [ok |-> TRUE, locks |-> MapPut(locks, key, client_id)]

\* a release_lock that leaves the table as it is
release_lock_kept(locks, key) == locks

\* release_lock: removes the entry of the key, whoever holds it
release_lock(locks, key) == IF key \in DOMAIN locks THEN MapErase(locks, key) ELSE locks

\* one iteration of the acquisition loop (storage.cpp:106-113); on failure the
\* handler replies ERROR locked and returns
TryAcquire(h) ==
    LET t == thr[h]
        n == t.node
        key == t.kv_pairs[t.i + 1].key
        got == try_acquire_lock(key_locks[n], key, h)
    IN  /\ t.pc = "lock"
        /\ key_locks' = [key_locks EXCEPT ![n] = got.locks]
        /\ thr' = [thr EXCEPT ![h] =
                      IF ~got.ok
                      THEN ReplyAndFinish(t, Message("ERROR", <<"locked: ">> \o key))
                      ELSE [t EXCEPT !.acquired_locks = Append(@, key),
                                     !.i = IF t.i + 1 = Len(t.kv_pairs) THEN 0 ELSE t.i + 1,
                                     !.pc = IF t.i + 1 = Len(t.kv_pairs) THEN "write" ELSE "lock"]]
        /\ UNCHANGED <<kv_store, paused, routing_table, replication_factor, quiescence, rest_vars>>

\* one iteration of the write loop (storage.cpp:116-119); a replica replies PUT_OK
\* after the last pair (storage.cpp:196-199)
WriteStore(h) ==
    LET t == thr[h]
        n == t.node
        kv == t.kv_pairs[t.i + 1]
        last == t.i + 1 = Len(t.kv_pairs)
    IN  /\ t.pc = "write"
        /\ kv_store' = [kv_store EXCEPT ![n] = MapPut(@, kv.key, kv.value)]
        /\ thr' = [thr EXCEPT ![h] =
                      IF ~last THEN [t EXCEPT !.i = t.i + 1]
                      ELSE IF is_primary(t) THEN [t EXCEPT !.i = 0, !.pc = "route"]
                      ELSE ReplyAndFinish(t, Message("PUT_OK", <<"ok">>))]
        /\ UNCHANGED <<key_locks, paused, routing_table, replication_factor, quiescence, rest_vars>>

\* 0-based index of the first entry of the table with the id, -1 when there is none
FirstIndexOf(table, id) ==
    IF \E j \in 1..Len(table) : table[j].node_id = id
    THEN (CHOOSE j \in 1..Len(table) :
             table[j].node_id = id /\ \A m \in 1..(j - 1) : table[m].node_id # id) - 1
    ELSE 0 - 1

\* 0-based index of the first entry whose token is >= key_hash, 0 when there is none
\* (storage.cpp:145-151)
PrimaryIndex(table, key_hash) ==
    IF \E j \in 1..Len(table) : key_hash <= table[j].token
    THEN (CHOOSE j \in 1..Len(table) :
             key_hash <= table[j].token /\ \A m \in 1..(j - 1) : key_hash > table[m].token) - 1
    ELSE 0

\* the primary looks itself up in its table and finds the primary index of the first
\* key (storage.cpp:124-153); without an entry of its own it replies ERROR routing
\* error and then releases its locks
FindRoute(h) ==
    LET t == thr[h]
        n == t.node
        cur == FirstIndexOf(routing_table[n], storage_id(n))
    IN  /\ t.pc = "route"
        /\ thr' = [thr EXCEPT ![h] =
                      IF cur = 0 - 1
                      THEN [t EXCEPT !.reply = Message("ERROR", <<"routing error">>),
                                     !.cur_idx = cur, !.i = 0, !.pc = "release"]
                      ELSE [t EXCEPT !.cur_idx = cur,
                                     !.primary_idx = PrimaryIndex(routing_table[n],
                                                        std_hash(t.kv_pairs[1].key)),
                                     !.rep = 0, !.successful_replicas = 1, !.pc = "fanout"]]
        /\ UNCHANGED <<kv_store, key_locks, paused, routing_table, replication_factor, quiescence, rest_vars>>

\* the ring index the fan-out loop uses for iteration rep (storage.cpp:155)
ReplicaIndex(primary_idx, rep, size) == (primary_idx + rep) % size

\* one iteration of the fan-out loop up to the sending of REPL_PUT
\* (storage.cpp:154-172): the loop ends, or the index is the node's own and is
\* skipped, or connect fails, or REPL_PUT is sent on a fresh connection
FanoutSend(h) ==
    LET t == thr[h]
        n == t.node
        table == routing_table[n]
        replica_idx == ReplicaIndex(t.primary_idx, t.rep, Len(table))
        target == connect_to_host(table[replica_idx + 1].address)
    IN  /\ t.pc = "fanout"
        /\ IF t.rep >= replication_factor[n]
           THEN thr' = [thr EXCEPT ![h] = [t EXCEPT !.i = 0, !.pc = "release"]]
           ELSE /\ Len(table) > 0
                /\ IF replica_idx = t.cur_idx \/ target = "none"
                   THEN thr' = [thr EXCEPT ![h] = [t EXCEPT !.rep = t.rep + 1]]
                   ELSE \E c \in Threads :
                          /\ thr[c].pc = "free"
                          /\ \A d \in Threads : thr[d].pc = "free" => c <= d
                          /\ thr' = [thr EXCEPT
                                        ![c] = NewThread(target, "REPL_PUT", t.payload,
                                                         <<"thread", h>>),
                                        ![h] = [t EXCEPT !.child = c, !.pc = "fanout_wait",
                                                         !.sent = Append(@, table[replica_idx + 1].node_id)]]
        /\ UNCHANGED <<kv_store, key_locks, paused, routing_table, replication_factor, quiescence, rest_vars>>

\* the rest of the iteration (storage.cpp:174-184): the reply of the replica is read
FanoutRecv(h) ==
    LET t == thr[h]
        r == thr[t.child].reply
    IN  /\ t.pc = "fanout_wait"
        /\ r # NoReply
        /\ thr' = [ReadReply(thr, t.child) EXCEPT ![h] =
                      [t EXCEPT !.child = 0, !.rep = t.rep + 1, !.pc = "fanout",
                                !.successful_replicas =
                                    IF r.type = "PUT_OK" THEN @ + 1 ELSE @]]
        /\ UNCHANGED <<kv_store, key_locks, paused, routing_table, replication_factor, quiescence, rest_vars>>

\* one iteration of a release loop (storage.cpp:135-137 and 188-190); after the
\* last one the primary replies PUT_OK unless it has replied ERROR routing error
ReleaseLock(h) ==
    LET t == thr[h]
        n == t.node
    IN  /\ t.pc = "release"
        /\ IF t.i < Len(t.acquired_locks)
           THEN /\ key_locks' = [key_locks EXCEPT ![n] =
                                    release_lock(@, t.acquired_locks[t.i + 1])]
                /\ thr' = [thr EXCEPT ![h] = [t EXCEPT !.i = t.i + 1]]
           ELSE /\ key_locks' = key_locks
                /\ thr' = [thr EXCEPT ![h] =
                              IF t.reply # NoReply THEN Finish(t)
                              ELSE ReplyAndFinish(t, Message("PUT_OK", <<"replicated">>))]
        /\ UNCHANGED <<kv_store, paused, routing_table, replication_factor, quiescence, rest_vars>>

-----------------------------------------------------------------------------
(* handle_get, handle_delete and the remaining cases of the switch *)

\* 1-based position of the first key that is not valid, 0 when every key is valid
FirstInvalid(keys) ==
    IF \E j \in 1..Len(keys) : ~key_valid(keys[j])
    THEN CHOOSE j \in 1..Len(keys) :
            ~key_valid(keys[j]) /\ \A m \in 1..(j - 1) : key_valid(keys[m])
    ELSE 0

\* 1-based position of the first key the store lacks, 0 when it has every key
FirstMissing(store, keys) ==
    IF \E j \in 1..Len(keys) : keys[j] \notin DOMAIN store
    THEN CHOOSE j \in 1..Len(keys) :
            keys[j] \notin DOMAIN store /\ \A m \in 1..(j - 1) : keys[m] \in DOMAIN store
    ELSE 0

\* the reply of handle_get for a payload on a store (storage.cpp:203-235)
GetReply(store, payload) ==
    LET keys == split(payload, ";")
        values == [j \in 1..Len(keys) |-> store[keys[j]]]
    IN  IF keys = <<>> THEN Message("ERROR", <<"no keys">>)
        ELSE IF FirstInvalid(keys) # 0
        THEN Message("ERROR", <<"bad key: ">> \o keys[FirstInvalid(keys)])
        ELSE IF FirstMissing(store, keys) # 0
        THEN Message("ERROR", <<"missing: ">> \o keys[FirstMissing(store, keys)])
        ELSE Message("GET_OK", join(values, ";"))

\* case CLIENT_GET (not refused) and case MANAGER_GET
HandleGet(h) ==
    LET t == thr[h] IN
    /\ t.pc = "dispatch" /\ t.type \in {"CLIENT_GET", "MANAGER_GET"}
    /\ ~RefusedWhenPaused(t)
    /\ thr' = [thr EXCEPT ![h] = ReplyAndFinish(t, GetReply(kv_store[t.node], t.payload))]
    /\ UNCHANGED <<kv_store, key_locks, paused, routing_table, replication_factor, quiescence, rest_vars>>

\* the store after the erase loop of handle_delete (storage.cpp:253-261)
RECURSIVE EraseAll(_, _)
EraseAll(store, keys) ==
    IF keys = <<>> THEN store
    ELSE EraseAll(IF keys[1] \in DOMAIN store THEN MapErase(store, keys[1]) ELSE store,
                  Tail(keys))

\* the reply of handle_delete (storage.cpp:238-264)
DeleteReply(payload) ==
    LET keys == split(payload, ";")
    IN  IF keys = <<>> THEN Message("ERROR", <<"no keys">>)
        ELSE IF FirstInvalid(keys) # 0
        THEN Message("ERROR", <<"bad key: ">> \o keys[FirstInvalid(keys)])
        ELSE Message("DELETE_OK", <<"ok">>)

\* case MANAGER_DELETE
HandleDelete(h) ==
    LET t == thr[h]
        reply == DeleteReply(t.payload)
    IN  /\ t.pc = "dispatch" /\ t.type = "MANAGER_DELETE"
        /\ kv_store' = [kv_store EXCEPT ![t.node] =
                           IF reply.type = "DELETE_OK"
                           THEN EraseAll(@, split(t.payload, ";")) ELSE @]
        /\ thr' = [thr EXCEPT ![h] = ReplyAndFinish(t, reply)]
        /\ UNCHANGED <<key_locks, paused, routing_table, replication_factor, quiescence, rest_vars>>

\* the orders in which an unordered_map of these keys can be iterated
Orders(S) ==
    {o \in [1..Cardinality(S) -> S] : \A j, m \in 1..Cardinality(S) : o[j] = o[m] => j = m}

\* case GET_ALL_KEYS: the keys joined by "," in the map's iteration order
GetAllKeys(h) ==
    LET t == thr[h] IN
    /\ t.pc = "dispatch" /\ t.type = "GET_ALL_KEYS"
    /\ \E order \in Orders(DOMAIN kv_store[t.node]) :
          thr' = [thr EXCEPT ![h] = ReplyAndFinish(t, Message("ALL_KEYS", join(order, ",")))]
    /\ UNCHANGED <<kv_store, key_locks, paused, routing_table, replication_factor, quiescence, rest_vars>>

\* case TABLE_PUSH: the cached ring and K are replaced.  (A payload whose port or
\* token is no number makes stoi throw out of the thread; the payloads of this model
\* are the manager's and convert.)
TablePush(h) ==
    LET t == thr[h]
        parsed == parse_table_payload(t.payload)
    IN  /\ t.pc = "dispatch" /\ t.type = "TABLE_PUSH"
        /\ ~parsed.threw
        /\ routing_table' = [routing_table EXCEPT ![t.node] = parsed.nodes]
        /\ replication_factor' = [replication_factor EXCEPT ![t.node] =
                                     parsed.replication_factor]
        /\ thr' = [thr EXCEPT ![h] =
                      ReplyAndFinish(t, Message("HEARTBEAT_ACK", <<"table_updated">>))]
        /\ UNCHANGED <<kv_store, key_locks, paused, quiescence, rest_vars>>

-----------------------------------------------------------------------------
(* The storage node under arbitrary peers *)

\* the texts of the requests the peers send
KeyA == <<"a">>
KeyB == <<"b">>
PutAX == <<"a", "|", "x">>
PutBYAX == <<"b", "|", "y", ";", "a", "|", "x">>
PutAXAY == <<"a", "|", "x", ";", "a", "|", "y">>
KeysAB == <<"a", ";", "b">>

\* a ring on which p owns two tokens and q one
NodeRing == <<Entry("p", 5), Entry("q", 7), Entry("p", 9)>>
\* a ring without p
RingWithoutP == <<Entry("q", 7)>>

\* the requests of the write path and the availability check
WritePathMessages ==
    {Message("AVAILABILITY_CHECK", <<>>),
     Message("CLIENT_PUT", PutAX), Message("CLIENT_PUT", PutBYAX),
     Message("CLIENT_PUT", PutAXAY)}

\* the lowest free thread slot
FreeSlot(h) == thr[h].pc = "free" /\ \A d \in Threads : thr[d].pc = "free" => h <= d

\* a peer outside the model has a reply to read
ReplyPending == \E h \in Threads : thr[h].owner = "env" /\ thr[h].reply # NoReply

\* accept_client and recv_message: a peer connects to a listening node and sends one
\* of the requests
Receive(h, requests) ==
    /\ FreeSlot(h)
    /\ \E n \in Nodes, m \in requests :
          /\ up[n]
          /\ thr' = [thr EXCEPT ![h] = NewThread(n, m.type, m.payload, "env")]
    /\ UNCHANGED <<kv_store, key_locks, paused, routing_table, replication_factor, quiescence, rest_vars>>

\* the peer reads the reply and closes
CloseEnv(h) ==
    /\ thr[h].owner = "env" /\ thr[h].reply # NoReply
    /\ thr' = ReadReply(thr, h)
    /\ UNCHANGED <<kv_store, key_locks, paused, routing_table, replication_factor, quiescence, rest_vars>>

\* no client takes part
NoClients == [c \in {} |-> <<>>]

\* the monitor thread between two passes
MonitorAsleep == [pc |-> "sleep", now |-> 0, expired |-> {}]

\* no table is being converted
NoCodec == [pc |-> "off", nodes |-> <<>>, K |-> 0, payload |-> <<>>,
            parsed |-> [threw |-> FALSE, replication_factor |-> 0, nodes |-> <<>>]]

\* the threads of the manager that run a rebalance: the handler of the
\* STORAGE_REGISTER of a node (manager.cpp:84-90) and the monitor (manager.cpp:759)
PassOwners == Nodes \cup {"monitor"}

\* a thread that runs no rebalance
IdlePass == [pc |-> "idle", changed_id |-> <<>>, affected |-> <<>>, copies |-> <<>>,
             deletes |-> <<>>, todo |-> <<>>, i |-> 0, attempt |-> 0, sent |-> <<>>,
             table |-> <<>>, broadcasted_nodes |-> {}]

NoPass == [w \in PassOwners |-> IdlePass]

\* the manager has registered both nodes at time 0 and nothing else runs in it
ManagerAtRest ==
    /\ heartbeat_times = [id \in {storage_id(n) : n \in Nodes} |-> 0]
    /\ now = 0
    /\ mon = MonitorAsleep
    /\ reg = [n \in Nodes |-> "idle"]

Init ==
    /\ kv_store = [n \in Nodes |-> EmptyMap]
    /\ key_locks = [n \in Nodes |-> EmptyMap]
    /\ \E b \in BOOLEAN : paused = [n \in Nodes |-> b]
    /\ routing_table = [n \in Nodes |-> NodeRing]
    /\ replication_factor = [n \in Nodes |-> 2]
    /\ up = [n \in Nodes |-> n = "p"]
    /\ thr = [h \in Threads |-> FreeThread]
    /\ hashv = (KeyA :> 3 @@ KeyB :> 8)
    /\ quiescence = [n \in Nodes |-> "none"]
    /\ cl = NoClients
    /\ node_table = NodeRing
    /\ manager_K = 2
    /\ ManagerAtRest
    /\ codec = NoCodec
    /\ pass = NoPass

\* The write path of one storage node, paused or not, under concurrent writers.  A
\* peer reads its reply as soon as it is sent; otherwise any thread may step and any
\* request of the write path may arrive.
Next ==
    \/ \E h \in Threads : CloseEnv(h)
    \/ \E h \in Threads : ~ReplyPending /\ Receive(h, WritePathMessages)
    \/ \E h \in Threads : ~ReplyPending /\ AvailabilityCheck(h)
    \/ \E h \in Threads : ~ReplyPending /\ RejectPaused(h)
    \/ \E h \in Threads : ~ReplyPending /\ HandlePut(h)
    \/ \E h \in Threads : ~ReplyPending /\ TryAcquire(h)
    \/ \E h \in Threads : ~ReplyPending /\ WriteStore(h)
    \/ \E h \in Threads : ~ReplyPending /\ FindRoute(h)
    \/ \E h \in Threads : ~ReplyPending /\ FanoutSend(h)
    \/ \E h \in Threads : ~ReplyPending /\ FanoutRecv(h)
    \/ \E h \in Threads : ~ReplyPending /\ ReleaseLock(h)

Spec == Init /\ [][Next]_vars

-----------------------------------------------------------------------------
(* The lock window of the primary write path *)

\* thread h runs handle_put as primary between its first acquisition and its reply
LockWindow(h) ==
    /\ thr[h].type = "CLIENT_PUT"
    /\ thr[h].pc \in {"lock", "write", "route", "fanout", "fanout_wait", "release"}

\* the keys thread h has acquired and not yet released
Held(h) ==
    IF ~LockWindow(h) THEN {}
    ELSE {thr[h].acquired_locks[j] :
             j \in (IF thr[h].pc = "release" THEN thr[h].i + 1 ELSE 1)..Len(thr[h].acquired_locks)}

\* the keys of the request thread h serves
KeysOf(h) == {thr[h].kv_pairs[j].key : j \in 1..Len(thr[h].kv_pairs)}

\* thread h has answered ERROR locked
RepliedLocked(h) ==
    /\ thr[h].reply.type = "ERROR"
    /\ thr[h].reply.payload # <<>> /\ thr[h].reply.payload[1] = "locked: "

\* No two primaries on a node hold a lock on the same key, and a primary that writes
\* holds the lock of every key it writes.
OneHolderPerKey ==
    /\ \A h1, h2 \in Threads :
          (h1 # h2 /\ thr[h1].node = thr[h2].node) => Held(h1) \cap Held(h2) = {}
    /\ \A h \in Threads :
          LockWindow(h) =>
             /\ \A k \in Held(h) :
                   k \in DOMAIN key_locks[thr[h].node] /\ key_locks[thr[h].node][k] = h
             /\ thr[h].pc \in {"write", "route", "fanout", "fanout_wait"} => KeysOf(h) \subseteq Held(h)

\* A primary that reaches the lock step for a key another primary holds is answered
\* ERROR locked and returns without a write.
LoserIsRejected ==
    \A h \in Threads :
       LET key == thr[h].kv_pairs[thr[h].i + 1].key IN
       (/\ thr[h].pc = "lock" /\ thr'[h] # thr[h]
        /\ \E o \in Threads \ {h} : thr[o].node = thr[h].node /\ key \in Held(o))
       => /\ thr'[h].reply = Message("ERROR", <<"locked: ">> \o key)
          /\ thr'[h].pc = "done"
          /\ kv_store' = kv_store /\ key_locks' = key_locks

\* C1: single writer per key.  On one node, while a CLIENT_PUT holds the lock of a
\* key, every other CLIENT_PUT that reaches the lock step for that key is answered
\* ERROR locked and does not write; two CLIENT_PUT handlers never hold the lock of
\* the same key, or write it, at the same time.
SingleWriterPerKey == []OneHolderPerKey /\ [][LoserIsRejected]_vars

\* a primary holds the lock of a key while another CLIENT_PUT naming the key has just
\* been answered ERROR locked
SingleWriterWitness ==
    \E h1, h2 \in Threads :
       /\ h1 # h2 /\ thr[h1].node = thr[h2].node
       /\ thr[h2].type = "CLIENT_PUT" /\ RepliedLocked(h2)
       /\ \E k \in Held(h1) : thr[h2].reply.payload = <<"locked: ">> \o k

\* C2: when a CLIENT_PUT is answered ERROR locked, the lock table holds no entry
\* that the rejected request acquired.
RejectedPutHoldsNoLock ==
    \A h \in Threads :
       (thr[h].type = "CLIENT_PUT" /\ RepliedLocked(h)) =>
          \A j \in 1..Len(thr[h].acquired_locks) :
             thr[h].acquired_locks[j] \notin DOMAIN key_locks[thr[h].node]

\* C3: AVAILABILITY_CHECK is answered "yes" exactly when the lock table of the node
\* is empty at the check, "no" otherwise, and the check changes neither the lock
\* table, the store nor the paused flag.
AvailabilityContract ==
    [][\A h \in Threads :
          (thr[h].pc = "dispatch" /\ thr[h].type = "AVAILABILITY_CHECK" /\ thr'[h] # thr[h])
          => /\ thr'[h].reply =
                   Message("AVAILABLE_STATUS",
                           IF DOMAIN key_locks[thr[h].node] = {} THEN <<"yes">> ELSE <<"no">>)
             /\ key_locks' = key_locks /\ kv_store' = kv_store /\ paused' = paused]_vars

\* an availability check has been answered "no" while a lock is held
AvailabilityWitness ==
    \E h \in Threads :
       /\ thr[h].type = "AVAILABILITY_CHECK"
       /\ thr[h].reply = Message("AVAILABLE_STATUS", <<"no">>)
       /\ DOMAIN key_locks[thr[h].node] # {}

-----------------------------------------------------------------------------
(* The storage node under the manager's pause protocol *)

PutBX == <<"b", "|", "x">>
PutBY == <<"b", "|", "y">>

\* the table the manager pushes once p has left the ring
TableWithoutP == build_table_payload(RingWithoutP, 1)

\* one request of every kind a storage node can be sent; CLIENT_DELETE is the
\* request of the client's delete, which has no case in the switch
DispatchMessages ==
    {Message("PAUSE_NODE", <<>>), Message("RESUME_NODE", <<>>),
     Message("AVAILABILITY_CHECK", <<>>),
     Message("CLIENT_PUT", PutBX), Message("REPL_PUT", PutBY),
     Message("CLIENT_GET", KeyB), Message("CLIENT_DELETE", KeyB),
     Message("MANAGER_GET", KeysAB), Message("MANAGER_GET", KeyB),
     Message("MANAGER_DELETE", KeyB),
     Message("GET_ALL_KEYS", <<>>), Message("TABLE_PUSH", TableWithoutP)}

InitDispatch ==
    /\ Init
    /\ paused = [n \in Nodes |-> FALSE]

\* Every case of the switch of serve_clients, with the manager pausing and resuming
\* the node at any time.
NextDispatch ==
    \/ \E h \in Threads : CloseEnv(h)
    \/ \E h \in Threads : ~ReplyPending /\ Receive(h, DispatchMessages)
    \/ \E h \in Threads : ~ReplyPending /\ PauseNode(h)
    \/ \E h \in Threads : ~ReplyPending /\ ResumeNode(h)
    \/ \E h \in Threads : ~ReplyPending /\ AvailabilityCheck(h)
    \/ \E h \in Threads : ~ReplyPending /\ RejectPaused(h)
    \/ \E h \in Threads : ~ReplyPending /\ UnknownType(h)
    \/ \E h \in Threads : ~ReplyPending /\ HandlePut(h)
    \/ \E h \in Threads : ~ReplyPending /\ TryAcquire(h)
    \/ \E h \in Threads : ~ReplyPending /\ WriteStore(h)
    \/ \E h \in Threads : ~ReplyPending /\ FindRoute(h)
    \/ \E h \in Threads : ~ReplyPending /\ FanoutSend(h)
    \/ \E h \in Threads : ~ReplyPending /\ FanoutRecv(h)
    \/ \E h \in Threads : ~ReplyPending /\ ReleaseLock(h)
    \/ \E h \in Threads : ~ReplyPending /\ HandleGet(h)
    \/ \E h \in Threads : ~ReplyPending /\ HandleDelete(h)
    \/ \E h \in Threads : ~ReplyPending /\ GetAllKeys(h)
    \/ \E h \in Threads : ~ReplyPending /\ TablePush(h)

SpecDispatch == InitDispatch /\ [][NextDispatch]_vars

-----------------------------------------------------------------------------
(* The manager's requests on a node that may be paused *)

\* the requests the manager and the other nodes send, and a client's put
ManagerMessages ==
    {Message("RESUME_NODE", <<>>), Message("AVAILABILITY_CHECK", <<>>),
     Message("CLIENT_PUT", PutBX), Message("REPL_PUT", PutBY),
     Message("MANAGER_GET", KeyB), Message("MANAGER_DELETE", KeyB),
     Message("GET_ALL_KEYS", <<>>), Message("TABLE_PUSH", TableWithoutP)}

InitManager ==
    /\ Init
    /\ paused = [n \in Nodes |-> TRUE]

\* The node starts paused; the manager's traffic and a client's puts arrive at any
\* time, and the manager resumes the node at any time.
NextManager ==
    \/ \E h \in Threads : CloseEnv(h)
    \/ \E h \in Threads : ~ReplyPending /\ Receive(h, ManagerMessages)
    \/ \E h \in Threads : ~ReplyPending /\ ResumeNode(h)
    \/ \E h \in Threads : ~ReplyPending /\ AvailabilityCheck(h)
    \/ \E h \in Threads : ~ReplyPending /\ RejectPaused(h)
    \/ \E h \in Threads : ~ReplyPending /\ HandlePut(h)
    \/ \E h \in Threads : ~ReplyPending /\ TryAcquire(h)
    \/ \E h \in Threads : ~ReplyPending /\ WriteStore(h)
    \/ \E h \in Threads : ~ReplyPending /\ FindRoute(h)
    \/ \E h \in Threads : ~ReplyPending /\ FanoutSend(h)
    \/ \E h \in Threads : ~ReplyPending /\ FanoutRecv(h)
    \/ \E h \in Threads : ~ReplyPending /\ ReleaseLock(h)
    \/ \E h \in Threads : ~ReplyPending /\ HandleGet(h)
    \/ \E h \in Threads : ~ReplyPending /\ HandleDelete(h)
    \/ \E h \in Threads : ~ReplyPending /\ GetAllKeys(h)
    \/ \E h \in Threads : ~ReplyPending /\ TablePush(h)

SpecManager == InitManager /\ [][NextManager]_vars

-----------------------------------------------------------------------------
(* The pause protocol *)

\* thread h has sent its reply to a peer that has not read it yet; no other thread
\* has stepped since
Answered(h) == thr[h].owner = "env" /\ thr[h].reply # NoReply

\* C4: while a node is paused, every CLIENT_PUT, CLIENT_GET and CLIENT_DELETE is
\* refused with ERROR node_paused.
ClientRequestsRefusedWhilePaused ==
    \A h \in Threads :
       (/\ Answered(h) /\ thr[h].is_paused
        /\ thr[h].type \in {"CLIENT_PUT", "CLIENT_GET", "CLIENT_DELETE"})
       => thr[h].reply = Message("ERROR", <<"node_paused">>)

\* the keys a get or delete payload names
PayloadKeys(payload) == split(payload, ";")

\* C5: REPL_PUT, MANAGER_GET, MANAGER_DELETE, GET_ALL_KEYS, AVAILABILITY_CHECK,
\* TABLE_PUSH and RESUME_NODE get the same reply and have the same effect whether or
\* not the node is paused, and none of them is refused with node_paused: whatever
\* flag the handler read, a REPL_PUT is written and answered PUT_OK, a MANAGER_GET is
\* answered from the store, a MANAGER_DELETE erases and is answered DELETE_OK,
\* GET_ALL_KEYS lists the stored keys, AVAILABILITY_CHECK reports the lock table,
\* TABLE_PUSH replaces the ring and K, and RESUME_NODE clears the flag.
ManagerRequestsServedWhilePaused ==
    \A h \in Threads :
       LET t == thr[h]
           n == t.node
           keys == PayloadKeys(t.payload)
       IN  Answered(h) =>
           /\ t.type = "REPL_PUT" =>
                 /\ t.reply = Message("PUT_OK", <<"ok">>)
                 /\ LET last == t.kv_pairs[Len(t.kv_pairs)] IN
                       last.key \in DOMAIN kv_store[n] /\ kv_store[n][last.key] = last.value
           /\ t.type = "MANAGER_GET" =>
                 IF \A j \in 1..Len(keys) : keys[j] \in DOMAIN kv_store[n]
                 THEN t.reply = Message("GET_OK",
                                        join([j \in 1..Len(keys) |-> kv_store[n][keys[j]]], ";"))
                 ELSE t.reply.type = "ERROR" /\ t.reply.payload[1] = "missing: "
           /\ t.type = "MANAGER_DELETE" =>
                 /\ t.reply = Message("DELETE_OK", <<"ok">>)
                 /\ \A j \in 1..Len(keys) : keys[j] \notin DOMAIN kv_store[n]
           /\ t.type = "GET_ALL_KEYS" =>
                 /\ t.reply.type = "ALL_KEYS"
                 /\ LET listed == split(t.reply.payload, ",") IN
                       /\ {listed[j] : j \in 1..Len(listed)} = DOMAIN kv_store[n]
                       /\ Len(listed) = Cardinality(DOMAIN kv_store[n])
           /\ t.type = "AVAILABILITY_CHECK" =>
                 t.reply = Message("AVAILABLE_STATUS",
                                   IF DOMAIN key_locks[n] = {} THEN <<"yes">> ELSE <<"no">>)
           /\ t.type = "TABLE_PUSH" =>
                 /\ t.reply = Message("HEARTBEAT_ACK", <<"table_updated">>)
                 /\ t.payload = TableWithoutP =>
                       routing_table[n] = RingWithoutP /\ replication_factor[n] = 1
           /\ t.type = "RESUME_NODE" =>
                 t.reply = Message("RESUME_ACK", <<"resumed">>) /\ ~paused[n]

\* a paused node has answered a MANAGER_GET with the stored value, which a REPL_PUT
\* wrote while the node was paused
ServedWhilePausedWitness ==
    \E h \in Threads :
       /\ Answered(h) /\ thr[h].is_paused /\ paused[thr[h].node]
       /\ thr[h].type = "MANAGER_GET"
       /\ thr[h].reply = Message("GET_OK", <<"y">>)

\* C6: once the manager has the PAUSE_ACK of a node and then an AVAILABLE_STATUS
\* yes, and until RESUME_NODE, no CLIENT_PUT writes the store or holds a lock on
\* that node.
QuiescenceAfterPause ==
    \A n \in Nodes :
       quiescence[n] = "quiet" =>
          /\ DOMAIN key_locks[n] = {}
          /\ \A h \in Threads :
                (thr[h].node = n /\ thr[h].type = "CLIENT_PUT") =>
                   thr[h].pc \notin {"write", "route", "fanout", "fanout_wait", "release"}

-----------------------------------------------------------------------------
(* The client (client.cpp) *)

Clients == 1..MaxClients

\* the keys and value lists the application uses
ClientKeys == {KeyA, KeyB}
ClientValues == {<< <<"x">> >>, << <<"y">> >>}

\* what every step of a client leaves alone
cluster_vars ==
    <<kv_store, key_locks, paused, routing_table, replication_factor, quiescence,
      up, hashv, node_table, manager_K, heartbeat_times, now, mon, reg, codec, pass>>

\* validate_key and validate_value (client.cpp:93-119)
validate_key(key) == key # <<>> /\ Len(key) <= MAX_KEY_BYTE_PER_REQUEST
validate_value(value) == Len(join(value, ",")) <= MAX_VALUE_BYTE_PER_REQUEST

\* serialize_value and parse_value (client.cpp:44-58)
serialize_value(value) == join(value, ",")
parse_value(payload) == SelectSeq(split(payload, ","), LAMBDA entry : entry # <<>>)

\* The values start_index can have after the loop of pick_node_for_attempt
\* (client.cpp:29-38).  When no token is >= the hash the variable is read
\* uninitialized; whatever it holds, the index used is below the table size.
StartIndices(table, hash_value) ==
    IF \E j \in 1..Len(table) : hash_value <= table[j].token
    THEN {PrimaryIndex(table, hash_value)}
    ELSE 0..(Len(table) - 1)

\* the entries pick_node_for_attempt can return on a table that is not empty
pick_node_for_attempt(table, key, attempt) ==
    {table[((start_index + attempt) % Len(table)) + 1] :
        start_index \in StartIndices(table, std_hash(key))}

\* refresh_table (client.cpp:61-90) against the manager's CLIENT_HELLO case
\* (manager.cpp:93-96): the cached ring and K after the refresh
refresh_table ==
    LET parsed == parse_table_payload(build_table_payload(node_table, manager_K))
    IN  [routing_table |-> parsed.nodes,
         replication_factor |-> Max(1, parsed.replication_factor)]

\* what is known of the last put of each key: the value, when every replica the
\* put contacted acknowledged it
NoAck == [known |-> FALSE, value |-> <<>>]

\* a client after init
NewClient ==
    [pc |-> "idle", op |-> "none", key |-> <<>>, value |-> <<>>, payload |-> <<>>,
     attempt |-> 0, replicas |-> 0, stored |-> 0, primary_fd |-> 0 - 1, conn |-> 0,
     routing_table |-> refresh_table.routing_table,
     replication_factor |-> refresh_table.replication_factor,
     put_result |-> "none", get_result |-> <<>>, got_ok |-> FALSE, tried |-> <<>>,
     last |-> [k \in ClientKeys |-> NoAck]]

\* the cached table and K of record c replaced by a refresh
Refreshed(c) ==
    [c EXCEPT !.routing_table = refresh_table.routing_table,
              !.replication_factor = refresh_table.replication_factor]

\* put up to the loop (client.cpp:193-222); the client has a table, so replicas > 0
PutStart(c) ==
    /\ cl[c].pc = "idle"
    /\ \E key \in ClientKeys, value \in ClientValues :
          /\ validate_key(key) /\ validate_value(value)
          /\ cl' = [cl EXCEPT ![c] =
                       [@ EXCEPT !.pc = "put_loop", !.op = "put", !.key = key,
                                 !.value = value,
                                 !.payload = key \o <<"|">> \o serialize_value(value),
                                 !.attempt = 0, !.stored = 0, !.primary_fd = 0 - 1,
                                 !.replicas = Min(cl[c].replication_factor,
                                                  Max(1, Len(cl[c].routing_table))),
                                 !.put_result = "none", !.tried = <<>>,
                                 !.got_ok = FALSE]]
    /\ UNCHANGED <<thr, cluster_vars>>

\* one iteration of the put loop up to send_message (client.cpp:225-246):
\* CLIENT_PUT on attempt 0 and REPL_PUT on the later attempts
PutSend(c) ==
    LET k == cl[c] IN
    /\ k.pc = "put_loop" /\ k.attempt < k.replicas
    /\ Len(k.routing_table) > 0
    /\ \E node \in pick_node_for_attempt(k.routing_table, k.key, k.attempt) :
          LET target == connect_to_host(node.address)
              put_type == IF k.attempt = 0 THEN "CLIENT_PUT" ELSE "REPL_PUT"
          IN  IF target = "none"
              THEN /\ cl' = [cl EXCEPT ![c] = [Refreshed(k) EXCEPT !.attempt = k.attempt + 1]]
                   /\ thr' = thr
              ELSE \E h \in Threads :
                     /\ FreeSlot(h)
                     /\ thr' = [thr EXCEPT ![h] =
                                   NewThread(target, put_type, k.payload, <<"client", c>>)]
                     /\ cl' = [cl EXCEPT ![c] =
                                  [k EXCEPT !.pc = "put_wait", !.conn = h,
                                            !.tried = Append(@, node.node_id)]]
    /\ UNCHANGED cluster_vars

\* the rest of the iteration (client.cpp:247-273)
PutRecv(c) ==
    LET k == cl[c]
        r == thr[k.conn].reply
        ack == r.type = "PUT_OK"
        counted == [k EXCEPT !.pc = "put_loop", !.conn = 0, !.attempt = k.attempt + 1,
                             !.stored = IF ack THEN @ + 1 ELSE @,
                             !.primary_fd = IF k.attempt = 0
                                            THEN (IF ack THEN k.conn ELSE 0 - 1) ELSE @]
    IN  /\ k.pc = "put_wait" /\ r # NoReply
        /\ thr' = ReadReply(thr, k.conn)
        /\ cl' = [cl EXCEPT ![c] = IF ack THEN counted ELSE Refreshed(counted)]
        /\ UNCHANGED cluster_vars

\* The end of put (client.cpp:276-300).  REPL_CONFIRM goes out on the connection of
\* attempt 0, whose handler thread served its one message and closed
\* (storage.cpp:274-386): no PUT_OK comes back, and the second send of send_message
\* (net_common.cpp:56-60) on the reset connection can raise SIGPIPE, which ends the
\* process.
PutEnd(c) ==
    LET k == cl[c]
        all_stored == k.stored = k.replicas
        outcomes == IF ~all_stored THEN {"false"}
                    ELSE IF k.primary_fd >= 0 THEN {"false", "killed"}
                    ELSE {"true"}
    IN  /\ k.pc = "put_loop" /\ k.attempt >= k.replicas
        /\ \E outcome \in outcomes :
              cl' = [cl EXCEPT ![c] =
                        [k EXCEPT !.pc = IF outcome = "killed" THEN "dead" ELSE "idle",
                                  !.put_result = outcome,
                                  !.last = [@ EXCEPT ![k.key] =
                                               IF all_stored
                                               THEN [known |-> TRUE, value |-> k.value]
                                               ELSE NoAck]]]
        /\ UNCHANGED <<thr, cluster_vars>>

\* get up to the loop (client.cpp:134-153)
GetStart(c) ==
    /\ cl[c].pc = "idle"
    /\ \E key \in ClientKeys :
          /\ validate_key(key)
          /\ cl' = [cl EXCEPT ![c] =
                       [@ EXCEPT !.pc = "get_loop", !.op = "get", !.key = key,
                                 !.attempt = 0, !.get_result = <<>>, !.got_ok = FALSE,
                                 !.tried = <<>>,
                                 !.replicas = Min(cl[c].replication_factor,
                                                  Max(1, Len(cl[c].routing_table)))]]
    /\ UNCHANGED <<thr, cluster_vars>>

\* one iteration of the get loop up to send_message (client.cpp:155-175)
GetSend(c) ==
    LET k == cl[c] IN
    /\ k.pc = "get_loop" /\ k.attempt < k.replicas
    /\ Len(k.routing_table) > 0
    /\ \E node \in pick_node_for_attempt(k.routing_table, k.key, k.attempt) :
          LET target == connect_to_host(node.address) IN
          IF target = "none"
          THEN /\ cl' = [cl EXCEPT ![c] = [Refreshed(k) EXCEPT !.attempt = k.attempt + 1]]
               /\ thr' = thr
          ELSE \E h \in Threads :
                 /\ FreeSlot(h)
                 /\ thr' = [thr EXCEPT ![h] =
                               NewThread(target, "CLIENT_GET", k.key, <<"client", c>>)]
                 /\ cl' = [cl EXCEPT ![c] =
                              [k EXCEPT !.pc = "get_wait", !.conn = h,
                                        !.tried = Append(@, node.node_id)]]
    /\ UNCHANGED cluster_vars

\* the rest of the iteration (client.cpp:176-186): the first GET_OK ends the get
GetRecv(c) ==
    LET k == cl[c]
        r == thr[k.conn].reply
    IN  /\ k.pc = "get_wait" /\ r # NoReply
        /\ thr' = ReadReply(thr, k.conn)
        /\ cl' = [cl EXCEPT ![c] =
                     IF r.type = "GET_OK"
                     THEN [k EXCEPT !.pc = "idle", !.conn = 0, !.got_ok = TRUE,
                                    !.get_result = parse_value(r.payload)]
                     ELSE [Refreshed(k) EXCEPT !.pc = "get_loop", !.conn = 0,
                                               !.attempt = k.attempt + 1]]
        /\ UNCHANGED cluster_vars

\* every attempt failed (client.cpp:188-189)
GetEnd(c) ==
    LET k == cl[c] IN
    /\ k.pc = "get_loop" /\ k.attempt >= k.replicas
    /\ cl' = [cl EXCEPT ![c] = [k EXCEPT !.pc = "idle", !.get_result = <<>>]]
    /\ UNCHANGED <<thr, cluster_vars>>

-----------------------------------------------------------------------------
(* The cluster: the manager's ring, two storage nodes, the clients *)

\* std::hash of the two keys in two builds: b below the last token, or above every
\* token
HashChoices == {(KeyA :> 3 @@ KeyB :> 8), (KeyA :> 3 @@ KeyB :> 10)}

\* the replication factors the manager is started with
KChoices == {1, 2}

\* Both nodes have registered and hold the manager's table; the clients have done init.
InitCluster ==
    /\ manager_K \in KChoices
    /\ hashv \in HashChoices
    /\ node_table = NodeRing
    /\ kv_store = [n \in Nodes |-> EmptyMap]
    /\ key_locks = [n \in Nodes |-> EmptyMap]
    /\ paused = [n \in Nodes |-> FALSE]
    /\ routing_table = [n \in Nodes |-> NodeRing]
    /\ replication_factor = [n \in Nodes |-> manager_K]
    /\ up = [n \in Nodes |-> TRUE]
    /\ thr = [h \in Threads |-> FreeThread]
    /\ quiescence = [n \in Nodes |-> "none"]
    /\ cl = [c \in Clients |-> NewClient]
    /\ ManagerAtRest
    /\ codec = NoCodec
    /\ pass = NoPass

\* A stable ring with every node up: the clients put and get, the nodes serve them.
NextCluster ==
    \/ \E c \in Clients : PutStart(c)
    \/ \E c \in Clients : PutSend(c)
    \/ \E c \in Clients : PutRecv(c)
    \/ \E c \in Clients : PutEnd(c)
    \/ \E c \in Clients : GetStart(c)
    \/ \E c \in Clients : GetSend(c)
    \/ \E c \in Clients : GetRecv(c)
    \/ \E c \in Clients : GetEnd(c)
    \/ \E h \in Threads : HandlePut(h)
    \/ \E h \in Threads : TryAcquire(h)
    \/ \E h \in Threads : WriteStore(h)
    \/ \E h \in Threads : FindRoute(h)
    \/ \E h \in Threads : FanoutSend(h)
    \/ \E h \in Threads : FanoutRecv(h)
    \/ \E h \in Threads : ReleaseLock(h)
    \/ \E h \in Threads : HandleGet(h)

SpecCluster == InitCluster /\ [][NextCluster]_vars

-----------------------------------------------------------------------------
(* The client's contract *)

\* The preference list of the specification: from the first entry whose token is >=
\* the hash (index 0 when there is none), the distinct physical node ids met walking
\* the ring forward, until K are collected or the ring is exhausted.
RECURSIVE WalkRing(_, _, _, _, _)
WalkRing(table, index, steps, K, acc) ==
    IF steps = Len(table) \/ Len(acc) = K THEN acc
    ELSE LET id == table[(index % Len(table)) + 1].node_id IN
         WalkRing(table, index + 1, steps + 1, K,
                  IF \E j \in 1..Len(acc) : acc[j] = id THEN acc ELSE Append(acc, id))

PreferenceList(table, K, hash_value) ==
    IF table = <<>> THEN <<>>
    ELSE WalkRing(table, PrimaryIndex(table, hash_value), 0, K, <<>>)

\* the storage process with the id
NodeOf(id) == CHOOSE n \in Nodes : storage_id(n) = id

\* client c has finished a put
PutDone(c) == cl[c].op = "put" /\ cl[c].pc \in {"idle", "dead"}

\* C7: a put with valid sizes returns true whenever at least one replica has
\* acknowledged it with PUT_OK, and returns false only when none has.
PutReturnsTrueOnAck ==
    \A c \in Clients :
       PutDone(c) =>
          /\ cl[c].stored >= 1 => cl[c].put_result = "true"
          /\ cl[c].put_result = "false" => cl[c].stored = 0

\* C8: read-your-writes for a single client on a stable ring: a get of k returns
\* the value of the most recent put to k, when every replica that put contacted
\* acknowledged it.
ReadYourWrites ==
    \A c \in Clients :
       (cl[c].op = "get" /\ cl[c].pc = "idle" /\ cl[c].last[cl[c].key].known)
       => cl[c].get_result = cl[c].last[cl[c].key].value

\* C9: a get contacts at most L = min(K, distinct physical nodes of the cached
\* ring) nodes, the replicas of the key's preference list in order, and returns the
\* empty list exactly when no attempt was answered GET_OK.
GetFollowsPreferenceList ==
    \A c \in Clients :
       LET k == cl[c]
           pref == PreferenceList(k.routing_table, k.replication_factor, std_hash(k.key))
           L == Min(k.replication_factor,
                    Cardinality({k.routing_table[j].node_id : j \in 1..Len(k.routing_table)}))
       IN  k.op = "get" =>
              /\ Len(k.tried) <= L
              /\ \A j \in 1..Len(k.tried) : j <= Len(pref) /\ k.tried[j] = pref[j]
              /\ k.pc = "idle" => (k.get_result = <<>> <=> ~k.got_ok)

\* C10: once a put of k has been acknowledged with PUT_OK, and before any later
\* put, each of the first K distinct physical nodes of k's preference list holds
\* the value put.
ReplicaConvergence ==
    \A c \in Clients :
       LET k == cl[c]
           pref == PreferenceList(node_table, manager_K, std_hash(k.key))
       IN  (PutDone(c) /\ k.stored >= 1) =>
              \A j \in 1..Len(pref) :
                 /\ k.key \in DOMAIN kv_store[NodeOf(pref[j])]
                 /\ kv_store[NodeOf(pref[j])][k.key] = serialize_value(k.value)

-----------------------------------------------------------------------------
(* The table payload: build_table_payload and parse_table_payload (utils.cpp) *)

\* the longest ring converted
MaxRingLen == 2

\* Entries whose ids and hosts show the cases of the text form: an empty id, an id
\* with a blank inside, a dotted host, the largest port, a token of several digits,
\* and an id and a host with a blank at an end.
CodecEntries ==
    {StorageNodeInfo(<<"p">>, <<"h">>, 1, 0),
     StorageNodeInfo(<<>>, <<"1", ".", "2">>, 65535, 907),
     StorageNodeInfo(<<"n", " ", "1">>, <<>>, 80, 5),
     StorageNodeInfo(<<"q">>, <<"h">>, 2, 5),
     StorageNodeInfo(<<"p", " ">>, <<"h">>, 1, 7),
     StorageNodeInfo(<<"p">>, <<" ", "h">>, 1, 7)}

\* the rings of up to MaxRingLen entries, the empty ring included
CodecRings == UNION {[1..len -> CodecEntries] : len \in 0..MaxRingLen}

\* the replication factors converted
CodecFactors == {1, 2, 10}

\* a table and a K to convert; the rest of the cluster is at rest
InitCodec ==
    /\ kv_store = [n \in Nodes |-> EmptyMap]
    /\ key_locks = [n \in Nodes |-> EmptyMap]
    /\ paused = [n \in Nodes |-> FALSE]
    /\ routing_table = [n \in Nodes |-> NodeRing]
    /\ replication_factor = [n \in Nodes |-> 2]
    /\ up = [n \in Nodes |-> TRUE]
    /\ thr = [h \in Threads |-> FreeThread]
    /\ hashv = (KeyA :> 3 @@ KeyB :> 8)
    /\ quiescence = [n \in Nodes |-> "none"]
    /\ cl = NoClients
    /\ node_table = NodeRing
    /\ manager_K = 2
    /\ ManagerAtRest
    /\ pass = NoPass
    /\ \E nodes \in CodecRings, K \in CodecFactors :
          codec = [NoCodec EXCEPT !.pc = "table", !.nodes = nodes, !.K = K]

\* the manager's send_table (manager.cpp:63-67): the table becomes a payload
BuildPayload ==
    /\ codec.pc = "table"
    /\ codec' = [codec EXCEPT !.pc = "payload",
                              !.payload = build_table_payload(codec.nodes, codec.K)]
    /\ UNCHANGED <<kv_store, key_locks, paused, routing_table, replication_factor, up,
                   thr, hashv, quiescence, cl, node_table, manager_K, heartbeat_times,
                   now, mon, reg, pass>>

\* the receiver's parse_table_payload (client.cpp:80, storage.cpp:366)
ParsePayload ==
    /\ codec.pc = "payload"
    /\ codec' = [codec EXCEPT !.pc = "parsed",
                              !.parsed = parse_table_payload(codec.payload)]
    /\ UNCHANGED <<kv_store, key_locks, paused, routing_table, replication_factor, up,
                   thr, hashv, quiescence, cl, node_table, manager_K, heartbeat_times,
                   now, mon, reg, pass>>

NextCodec ==
    \/ BuildPayload
    \/ ParsePayload

SpecCodec == InitCodec /\ [][NextCodec]_vars

\* the text has none of the separators and no whitespace at its ends
PlainText(s) ==
    /\ \A i \in 1..Len(s) : s[i] \notin {",", ";", "#"}
    /\ s = <<>> \/ (~isspace(s[1]) /\ ~isspace(s[Len(s)]))

\* every id and host of the ring is plain
PlainRing(nodes) ==
    \A i \in 1..Len(nodes) : PlainText(nodes[i].node_id) /\ PlainText(nodes[i].address.host)

\* C16: table payload round trip.  For every ring whose ids and hosts contain none
\* of ',', ';', '#' and no surrounding whitespace, the empty ring included, and
\* every K >= 1, parsing the payload built from the ring and K gives the same
\* entries in the same order and the same K.
TableRoundTrip ==
    (codec.pc = "parsed" /\ PlainRing(codec.nodes) /\ codec.K >= 1) =>
       /\ ~codec.parsed.threw
       /\ codec.parsed.nodes = codec.nodes
       /\ codec.parsed.replication_factor = codec.K

\* a ring of two entries, one with an empty id and a five-digit port, has made the
\* round trip with K = 10
TableRoundTripWitness ==
    /\ codec.pc = "parsed" /\ PlainRing(codec.nodes) /\ codec.K = 10
    /\ Len(codec.nodes) = 2
    /\ codec.nodes[1].address.port = 65535 /\ codec.nodes[1].node_id = <<>>
    /\ codec.parsed.nodes = codec.nodes

-----------------------------------------------------------------------------
(* The fan-out of a primary whose replica may be down or die *)

\* A storage process is killed (test_app.cpp kills nodes to test failures): it
\* stops listening, its store and lock table are gone with it.  A peer waiting for
\* the reply of one of its threads sees the connection closed; a replica one of its
\* primaries waits for goes on without a reader.
KillNode(n) ==
    LET dies(h) == thr[h].node = n /\ thr[h].pc \notin {"free", "done"}
        orphan(h) == \E o \in Threads : dies(o) /\ thr[o].pc = "fanout_wait" /\ thr[o].child = h
    IN  /\ up[n]
        /\ up' = [up EXCEPT ![n] = FALSE]
        /\ kv_store' = [kv_store EXCEPT ![n] = EmptyMap]
        /\ key_locks' = [key_locks EXCEPT ![n] = EmptyMap]
        /\ thr' = [h \in Threads |->
                      IF dies(h)
                      THEN (IF thr[h].owner = "gone" THEN FreeThread
                            ELSE [thr[h] EXCEPT !.pc = "done", !.reply = Message("closed", <<>>)])
                      ELSE IF orphan(h)
                      THEN (IF thr[h].pc = "done" THEN FreeThread
                            ELSE [thr[h] EXCEPT !.owner = "gone"])
                      ELSE thr[h]]
        /\ UNCHANGED <<paused, routing_table, replication_factor, quiescence, hashv, cl,
                       node_table, manager_K, heartbeat_times, now, mon, reg, codec, pass>>

\* puts of key b, as a client and as a primary send them
FanoutMessages == {Message("CLIENT_PUT", PutBY), Message("REPL_PUT", PutBX)}

\* both nodes are up and hold the ring
InitFanout ==
    /\ kv_store = [n \in Nodes |-> EmptyMap]
    /\ key_locks = [n \in Nodes |-> EmptyMap]
    /\ paused = [n \in Nodes |-> FALSE]
    /\ routing_table = [n \in Nodes |-> NodeRing]
    /\ replication_factor = [n \in Nodes |-> 2]
    /\ up = [n \in Nodes |-> TRUE]
    /\ thr = [h \in Threads |-> FreeThread]
    /\ hashv = (KeyA :> 3 @@ KeyB :> 8)
    /\ quiescence = [n \in Nodes |-> "none"]
    /\ cl = NoClients
    /\ node_table = NodeRing
    /\ manager_K = 2
    /\ ManagerAtRest
    /\ codec = NoCodec
    /\ pass = NoPass

\* Puts arrive at p and at q; p, which every fan-out of q goes to, can be killed at
\* any time.
NextFanout ==
    \/ \E h \in Threads : CloseEnv(h)
    \/ \E h \in Threads : ~ReplyPending /\ Receive(h, FanoutMessages)
    \/ \E h \in Threads : ~ReplyPending /\ HandlePut(h)
    \/ \E h \in Threads : ~ReplyPending /\ TryAcquire(h)
    \/ \E h \in Threads : ~ReplyPending /\ WriteStore(h)
    \/ \E h \in Threads : ~ReplyPending /\ FindRoute(h)
    \/ \E h \in Threads : ~ReplyPending /\ FanoutSend(h)
    \/ \E h \in Threads : ~ReplyPending /\ FanoutRecv(h)
    \/ \E h \in Threads : ~ReplyPending /\ ReleaseLock(h)
    \/ ~ReplyPending /\ KillNode("p")

SpecFanout == InitFanout /\ [][NextFanout]_vars

\* thread h is a primary between the lookup of its own entry, which it found, and
\* its reply
InFanout(h) ==
    /\ thr[h].type = "CLIENT_PUT"
    /\ thr[h].pc \in {"fanout", "fanout_wait", "release"}
    /\ thr[h].cur_idx >= 0
    /\ thr[h].reply = NoReply

\* thread h takes a step of its own (each one moves its position or a loop counter)
\* and its process lives on
OwnStep(h) ==
    /\ thr[h].pc \notin {"free", "done"}
    /\ <<thr'[h].pc, thr'[h].i, thr'[h].rep>> # <<thr[h].pc, thr[h].i, thr[h].rep>>
    /\ up'[thr[h].node]

\* C17: a valid CLIENT_PUT whose locks were acquired and whose local write was
\* performed, on a node that finds itself in its routing table, is answered PUT_OK
\* whatever becomes of the REPL_PUT to each replica (no connection, a connection
\* lost, a reply other than PUT_OK), and it holds none of its locks any more when
\* it replies.
PrimaryAnswersPutOk ==
    [][\A h \in Threads :
          (InFanout(h) /\ OwnStep(h)) =>
             \/ thr'[h].pc \in {"fanout", "fanout_wait", "release"} /\ thr'[h].reply = NoReply
             \/ /\ thr'[h].reply = Message("PUT_OK", <<"replicated">>)
                /\ \A j \in 1..Len(thr[h].acquired_locks) :
                      LET key == thr[h].acquired_locks[j] IN
                      key \in DOMAIN key_locks'[thr[h].node] =>
                         key_locks'[thr[h].node][key] # h]_vars

\* a primary has answered PUT_OK and holds no lock though no replica confirmed: the
\* one it sent REPL_PUT to died before its reply, and the next connect failed
PrimaryAnswersPutOkWitness ==
    \E h \in Threads :
       /\ thr[h].type = "CLIENT_PUT" /\ thr[h].node = "q" /\ thr[h].payload = PutBY
       /\ thr[h].reply = Message("PUT_OK", <<"replicated">>)
       /\ thr[h].sent = <<storage_id("p")>> /\ thr[h].successful_replicas = 1
       /\ ~up["p"] /\ DOMAIN key_locks["q"] = {}

\* the ids of the physical nodes of a table
PhysicalNodes(table) == {table[j].node_id : j \in 1..Len(table)}

\* the members of a sequence
Range(seq) == {seq[j] : j \in 1..Len(seq)}

\* C19: a storage node that handles a CLIENT_PUT as the primary of the key, on a
\* ring of at least K distinct physical nodes, sends REPL_PUT to exactly the K-1
\* other distinct physical nodes of the key's preference list: never to its own
\* address, never twice to the same physical node.
FanoutToOtherReplicas ==
    \A h \in Threads :
       LET t == thr[h]
           n == t.node
           table == routing_table[n]
           K == replication_factor[n]
           pref == PreferenceList(table, K, std_hash(t.kv_pairs[1].key))
       IN  (/\ t.type = "CLIENT_PUT" /\ t.pc \in {"fanout", "fanout_wait", "release"}
            /\ t.cur_idx >= 0
            /\ Cardinality(PhysicalNodes(table)) >= K
            /\ pref[1] = storage_id(n))
           => /\ \A j \in 1..Len(t.sent) : t.sent[j] # storage_id(n)
              /\ \A j, m \in 1..Len(t.sent) : t.sent[j] = t.sent[m] => j = m
              /\ Range(t.sent) \subseteq Range(pref)
              /\ (t.pc = "release" /\ \A id \in Range(pref) : up[NodeOf(id)])
                    => Len(t.sent) = K - 1

\* C20: a REPL_PUT handler writes the pairs of its payload into the local store and
\* replies PUT_OK; it never changes the lock table, its outcome does not depend on
\* it (it succeeds while a CLIENT_PUT in flight holds the lock of the key), and it
\* sends no message to another storage node.
ReplPutFrame ==
    [][\A h \in Threads :
          LET t == thr[h]
              kv == t.kv_pairs[t.i + 1]
          IN  (t.type = "REPL_PUT" /\ OwnStep(h)) =>
                 /\ key_locks' = key_locks
                 /\ \A o \in Threads \ {h} : thr'[o] = thr[o]
                 /\ t.pc \in {"dispatch", "write"}
                 /\ t.pc = "dispatch" => kv_store' = kv_store
                 /\ t.pc = "write" =>
                       kv_store' = [kv_store EXCEPT ![t.node] = MapPut(@, kv.key, kv.value)]
                 /\ (thr'[h].reply # NoReply /\ ParsePut(t.payload).err = NoReply) =>
                       /\ thr'[h].reply = Message("PUT_OK", <<"ok">>)
                       /\ t.pc = "write" /\ t.i + 1 = Len(t.kv_pairs)]_vars

\* a REPL_PUT of a key has been answered PUT_OK, its value stored, while a CLIENT_PUT
\* in flight on the node holds the lock of that key
ReplPutFrameWitness ==
    \E h, o \in Threads :
       /\ thr[h].type = "REPL_PUT" /\ thr[h].reply = Message("PUT_OK", <<"ok">>)
       /\ thr[o].type = "CLIENT_PUT" /\ thr[o].node = thr[h].node /\ InFanout(o)
       /\ KeyB \in Held(o)
       /\ kv_store[thr[h].node][KeyB] = <<"x">>

-----------------------------------------------------------------------------
(* The manager (manager.cpp): hashing and virtual nodes *)

\* The number of virtual nodes of a physical node.  The constant and the two
\* functions below are declared (utils.hpp:35-38) and used by manager.cpp:121 but
\* not defined in the sources at hand; they follow the specification: one hash
\* function for key routing and for tokens, and the token of virtual node i of a
\* physical node is the hash of the node id followed by i.
VNODES_PER_NODE == 2

consistent_hash(input) == std_hash(input)

generate_virtual_tokens(physical_node_id, num_vnodes) ==
    [i \in 1..num_vnodes |-> consistent_hash(physical_node_id \o to_string(i - 1))]

-----------------------------------------------------------------------------
(* The manager: registration *)

\* the failure timeout of monitor_heartbeats, in seconds
HeartbeatTimeout == 6

\* the payload of STORAGE_REGISTER (storage.cpp:23)
RegisterPayload(n) ==
    storage_id(n) \o <<",">> \o addr(n).host \o <<",">> \o to_string(addr(n).port)

\* no entry has a larger token than its successor
TokensAscend(table) == \A j \in 1..(Len(table) - 1) : table[j].token <= table[j + 1].token

\* a registration that leaves the table in the order of insertion
sort_by_token_skipped(table) == {table}

\* std::sort with the comparison lhs.token < rhs.token (manager.cpp:148-150): the
\* arrangements of the entries with tokens ascending; entries with equal tokens
\* can come out in any order
sort_by_token(table) ==
    LET arrangements == {f \in [1..Len(table) -> 1..Len(table)] :
                            \A i, j \in 1..Len(table) : i # j => f[i] # f[j]}
    IN  {s \in {[j \in 1..Len(table) |-> table[f[j]]] : f \in arrangements} :
            TokensAscend(s)}

\* a handle_storage_register that leaves the earlier entries of the node in the table
handle_storage_register_keeps(table, payload) ==
    LET parts == split(payload, ",")
        node_id == parts[1]
        port == ToU16(StrToNum(parts[3]).val)
        virtual_tokens == generate_virtual_tokens(node_id, VNODES_PER_NODE)
        pushed == [i \in 1..VNODES_PER_NODE |->
                      StorageNodeInfo(node_id, parts[2], port, virtual_tokens[i])]
    IN  IF Len(parts) # 3
        THEN [node_id |-> <<>>, registered |-> FALSE, tables |-> {table}]
        ELSE [node_id |-> node_id, registered |-> TRUE,
              tables |-> sort_by_token(table \o pushed)]

\* handle_storage_register: a payload without three parts changes nothing;
\* otherwise the entries of the node are erased, VNODES_PER_NODE entries pushed and
\* the table sorted.  tables are the tables the call can leave.
handle_storage_register(table, payload) ==
    LET parts == split(payload, ",")
        node_id == parts[1]
        port == ToU16(StrToNum(parts[3]).val)
        virtual_tokens == generate_virtual_tokens(node_id, VNODES_PER_NODE)
        kept == SelectSeq(table, LAMBDA entry : entry.node_id # node_id)
        pushed == [i \in 1..VNODES_PER_NODE |->
                      StorageNodeInfo(node_id, parts[2], port, virtual_tokens[i])]
    IN  IF Len(parts) # 3
        THEN [node_id |-> <<>>, registered |-> FALSE, tables |-> {table}]
        ELSE [node_id |-> node_id, registered |-> TRUE,
              tables |-> sort_by_token(kept \o pushed)]

\* the table and K a receiver of the manager's TABLE_PUSH ends up with
pushed_table(table, K) == parse_table_payload(build_table_payload(table, K))

\* the manager process runs
ManagerRuns == mon.pc # "crashed"

\* the monitor is inside the block that holds node_table_mutex
MutexHeld == mon.pc \in {"hung", "pass"}

\* A storage process starts (GTStoreStorage::init): it listens, sends
\* STORAGE_REGISTER and takes the table of the reply (storage.cpp:17-43).  The
\* manager's handler runs handle_storage_register and send_table
\* (manager.cpp:84-88); its rebalance and broadcast follow.
StorageRegister(n) ==
    LET result == handle_storage_register(node_table, RegisterPayload(n)) IN
    /\ ManagerRuns /\ ~MutexHeld
    /\ ~up[n] /\ reg[n] = "idle"
    /\ \E table \in result.tables :
          LET reply == pushed_table(table, manager_K) IN
          /\ node_table' = table
          /\ routing_table' = [routing_table EXCEPT ![n] = reply.nodes]
          /\ replication_factor' = [replication_factor EXCEPT ![n] = reply.replication_factor]
    /\ heartbeat_times' = MapPut(heartbeat_times, result.node_id, now)
    /\ up' = [up EXCEPT ![n] = TRUE]
    /\ kv_store' = [kv_store EXCEPT ![n] = EmptyMap]
    /\ key_locks' = [key_locks EXCEPT ![n] = EmptyMap]
    /\ paused' = [paused EXCEPT ![n] = FALSE]
    /\ reg' = [reg EXCEPT ![n] = "rebalance"]
    /\ UNCHANGED <<thr, hashv, quiescence, cl, manager_K, now, mon, codec, pass>>

\* heartbeat_loop (storage.cpp:46-62) and handle_heartbeat (manager.cpp:160-163):
\* the time of the id is stamped, whether or not the id is in the table
Heartbeat(n) ==
    /\ ManagerRuns /\ up[n]
    /\ heartbeat_times' = MapPut(heartbeat_times, storage_id(n), now)
    /\ heartbeat_times' # heartbeat_times
    /\ UNCHANGED <<kv_store, key_locks, paused, routing_table, replication_factor, up,
                   thr, hashv, quiescence, cl, node_table, manager_K, now, mon, reg, codec, pass>>


-----------------------------------------------------------------------------
(* The manager: the requests of a rebalance and what they do to the stores *)

\* the keys in the order the batches list them
KeyOrder == <<KeyA, KeyB>>
SeqOfKeys(S) == SelectSeq(KeyOrder, LAMBDA key : key \in S)

\* the nodes in the order of their addresses
NodeOrder == <<"p", "q">>

\* the pairs written one after the other, as the write loop of handle_put does
RECURSIVE WriteAll(_, _)
WriteAll(store, kv) ==
    IF kv = <<>> THEN store
    ELSE WriteAll(MapPut(store, kv[1].key, kv[1].value), Tail(kv))

\* get_all_keys_from_node (manager.cpp:211-235): the keys of the node, none when
\* it cannot be reached
get_all_keys_from_node(stores, address) ==
    LET n == connect_to_host(address) IN
    IF n = "none" THEN {}
    ELSE Range(split(join(SeqOfKeys(DOMAIN stores[n]), ","), ","))

\* get_key_from_node (manager.cpp:269-297): the values of the GET_OK reply to
\* MANAGER_GET split at ";", nothing on any failure
get_key_from_node(stores, keys, address) ==
    LET n == connect_to_host(address)
        reply == GetReply(stores[n], join(keys, ";"))
    IN  IF n = "none" \/ reply.type # "GET_OK" THEN <<>> ELSE split(reply.payload, ";")

\* replicate_key_to_node (manager.cpp:238-266): the stores after the REPL_PUT
replicate_key_to_node(stores, keys, values, address) ==
    LET n == connect_to_host(address)
        parsed == ParsePut(join([i \in 1..Len(keys) |-> keys[i] \o <<"|">> \o values[i]], ";"))
    IN  IF n = "none" \/ parsed.err # NoReply THEN stores
        ELSE [stores EXCEPT ![n] = WriteAll(@, parsed.kv)]

\* delete_key_from_node (manager.cpp:300-320): the stores after the MANAGER_DELETE
delete_key_from_node(stores, keys, address) ==
    LET n == connect_to_host(address)
        payload == join(keys, ";")
    IN  IF n = "none" \/ DeleteReply(payload).type # "DELETE_OK" THEN stores
        ELSE [stores EXCEPT ![n] = EraseAll(@, split(payload, ";"))]

\* one batch of a rebalance (manager.cpp:685-691 and 541-547): the values are read
\* from the source and, when there is one value per key, written to the
\* destination; otherwise the batch is skipped
MoveBatch(stores, keys, source, dest) ==
    LET values == get_key_from_node(stores, keys, source) IN
    IF keys = <<>> \/ Len(values) # Len(keys) THEN stores
    ELSE replicate_key_to_node(stores, keys, values, dest)

-----------------------------------------------------------------------------
(* The manager: which replicas a key has *)

\* 0-based index of the nearest entry after idx, going round the ring, that is not
\* of the node; -1 when every entry is
SuccessorOf(nodes, id, idx) ==
    LET size == Len(nodes)
        steps == {d \in 1..(size - 1) : nodes[((idx + d) % size) + 1].node_id # id}
    IN  IF steps = {} THEN 0 - 1
        ELSE (idx + (CHOOSE d \in steps : \A o \in steps : d <= o)) % size

\* the same going backwards
PredecessorOf(nodes, id, idx) ==
    LET size == Len(nodes)
        steps == {d \in 1..(size - 1) : nodes[((idx - d + size) % size) + 1].node_id # id}
    IN  IF steps = {} THEN 0 - 1
        ELSE (idx - (CHOOSE d \in steps : \A o \in steps : d <= o) + size) % size

\* The loop of manager.cpp:639-649 and 495-505 from its state: k distinct physical
\* nodes seen, the index cur_idx, the limit, the ids seen, and whether the node
\* that joined or failed is among them (which raises the limit by one).  The loop
\* ends when k reaches the limit or the number of entries; once every physical
\* node has been seen k cannot grow, and if the loop has not ended by then it
\* never does.
RECURSIVE ReplicaWalk(_, _, _, _, _, _, _)
ReplicaWalk(nodes, changed_id, k, cur_idx, upper_limit, seen, to_move) ==
    LET id == nodes[cur_idx + 1].node_id
        next == (cur_idx + 1) % Len(nodes)
    IN  IF ~(k < upper_limit /\ k < Len(nodes))
        THEN [hangs |-> FALSE, cur_idx |-> cur_idx, to_move |-> to_move, seen |-> seen]
        ELSE IF PhysicalNodes(nodes) \subseteq seen
        THEN [hangs |-> TRUE, cur_idx |-> cur_idx, to_move |-> to_move, seen |-> seen]
        ELSE IF id \in seen
        THEN ReplicaWalk(nodes, changed_id, k, next, upper_limit, seen, to_move)
        ELSE ReplicaWalk(nodes, changed_id, k + 1, next,
                         IF id = changed_id THEN upper_limit + 1 ELSE upper_limit,
                         seen \cup {id}, to_move \/ id = changed_id)

\* KeyPlan without the step back of manager.cpp:659: the entry the walk stopped at
KeyPlanNoStepBack(nodes, K, changed_id, key) ==
    LET size == Len(nodes)
        primary_idx == PrimaryIndex(nodes, consistent_hash(key))
        neighbor == SuccessorOf(nodes, changed_id, primary_idx)
        walk == ReplicaWalk(nodes, changed_id, 0, primary_idx, K, {}, FALSE)
    IN  [hangs |-> walk.hangs, to_move |-> walk.to_move, seen |-> walk.seen,
         originator |-> IF nodes[primary_idx + 1].node_id # changed_id THEN primary_idx
                        ELSE IF neighbor < 0 THEN 0 ELSE neighbor,
         last |-> walk.cur_idx]

\* KeyPlan without the choice of manager.cpp:492: the key is read at its primary
\* entry also when that is an entry of the changed node
KeyPlanFromPrimary(nodes, K, changed_id, key) ==
    LET size == Len(nodes)
        primary_idx == PrimaryIndex(nodes, consistent_hash(key))
        walk == ReplicaWalk(nodes, changed_id, 0, primary_idx, K, {}, FALSE)
    IN  [hangs |-> walk.hangs, to_move |-> walk.to_move, seen |-> walk.seen,
         originator |-> primary_idx,
         last |-> (walk.cur_idx - 1 + size) % size]

\* what a rebalance decides for one key: the walk from the key's primary index,
\* the index the key is read from (the primary, or the successor of the primary
\* when the primary is an entry of the changed node; neighbor_vnodes yields 0
\* where it has no entry) and the index one step back from where the walk ended
KeyPlan(nodes, K, changed_id, key) ==
    LET size == Len(nodes)
        primary_idx == PrimaryIndex(nodes, consistent_hash(key))
        neighbor == SuccessorOf(nodes, changed_id, primary_idx)
        walk == ReplicaWalk(nodes, changed_id, 0, primary_idx, K, {}, FALSE)
    IN  [hangs |-> walk.hangs, to_move |-> walk.to_move, seen |-> walk.seen,
         originator |-> IF nodes[primary_idx + 1].node_id # changed_id THEN primary_idx
                        ELSE IF neighbor < 0 THEN 0 ELSE neighbor,
         last |-> (walk.cur_idx - 1 + size) % size]


-----------------------------------------------------------------------------
(* The manager: rebalance_on_node_join and rebalance_on_node_failure *)

\* a batch of keys to read at source and write at dest
Batch(keys, source, dest) == [keys |-> keys, source |-> source, dest |-> dest]

\* the batches run in order
RECURSIVE RunBatches(_, _)
RunBatches(stores, batches) ==
    IF batches = <<>> THEN stores
    ELSE RunBatches(MoveBatch(stores, batches[1].keys, batches[1].source, batches[1].dest),
                    Tail(batches))

\* the deletions run in order; an empty list is skipped
RECURSIVE RunDeletes(_, _)
RunDeletes(stores, batches) ==
    IF batches = <<>> THEN stores
    ELSE RunDeletes(IF batches[1].keys = <<>> THEN stores
                    ELSE delete_key_from_node(stores, batches[1].keys, batches[1].source),
                    Tail(batches))

\* the 0-based indices of the entries of a node
IndicesOf(nodes, id) == {j - 1 : j \in {m \in 1..Len(nodes) : nodes[m].node_id = id}}

\* the address of the node in the table; a default NodeAddress when it has no entry
AddressOf(nodes, id) ==
    IF IndicesOf(nodes, id) = {} THEN [host |-> <<>>, port |-> 0]
    ELSE nodes[(CHOOSE j \in IndicesOf(nodes, id) : TRUE) + 1].address

\* a node of the table whose process has stopped: nothing listens at its address
GoneNode(token) == StorageNodeInfo(<<"r">>, <<"h">>, 3, token)

\* the addresses in the order of a std::set<NodeAddress>, the default NodeAddress
\* first
AddressOrder ==
    <<[host |-> <<>>, port |-> 0]>> \o [i \in 1..Len(NodeOrder) |-> addr(NodeOrder[i])]
    \o <<GoneNode(0).address>>

\* the addresses of a std::set<NodeAddress> as its iteration yields them
InAddressOrder(addresses) == SelectSeq(AddressOrder, LAMBDA a : a \in addresses)

\* the batches that name a key; a map entry exists only for an address with a key
NonEmpty(batches) == SelectSeq(batches, LAMBDA b : b.keys # <<>>)

\* The planning of rebalance_on_node_join on a snapshot (manager.cpp:563-661).
\* The keys of the successors of the new node's entries are planned; a key whose
\* walk meets the new node is copied from its originator to the new node and
\* deleted at the entry the walk ended on.  hangs: the planning loop does not end.
plan_node_join(nodes, K, new_node_id, stores) ==
    LET successors == {SuccessorOf(nodes, new_node_id, j) : j \in IndicesOf(nodes, new_node_id)}
                      \ {0 - 1}
        next_node_keys == UNION {get_all_keys_from_node(stores, nodes[j + 1].address) :
                                    j \in successors}
        plan == [key \in next_node_keys |-> KeyPlan(nodes, K, new_node_id, key)]
        moved == {key \in next_node_keys : plan[key].to_move}
        keys_to_copy == [i \in 1..Len(AddressOrder) |->
            Batch(SeqOfKeys({key \in moved :
                                nodes[plan[key].originator + 1].address = AddressOrder[i]}),
                  AddressOrder[i], AddressOf(nodes, new_node_id))]
        keys_to_delete == [i \in 1..Len(AddressOrder) |->
            Batch(SeqOfKeys({key \in moved :
                                nodes[plan[key].last + 1].address = AddressOrder[i]}),
                  AddressOrder[i], AddressOrder[i])]
    IN  [hangs |-> \E key \in next_node_keys : plan[key].hangs,
         keys_to_copy |-> NonEmpty(keys_to_copy),
         keys_to_delete |-> NonEmpty(keys_to_delete)]

\* join_affected_nodes without line 604: the new node is not an affected node
join_affected_nodes_unpaused(nodes, new_node_id, keys_to_copy, keys_to_delete) ==
    InAddressOrder({b.source : b \in Range(keys_to_copy)}
                   \cup {b.source : b \in Range(keys_to_delete)})

\* affected_nodes of rebalance_on_node_join (manager.cpp:604, 655, 660): the new
\* node, the originators and the nodes deleted at
join_affected_nodes(nodes, new_node_id, keys_to_copy, keys_to_delete) ==
    InAddressOrder({AddressOf(nodes, new_node_id)}
                   \cup {b.source : b \in Range(keys_to_copy)}
                   \cup {b.source : b \in Range(keys_to_delete)})

\* affected_nodes of rebalance_on_node_failure (manager.cpp:514-517): the sources
\* and the destinations
failure_affected_nodes(keys_to_move) ==
    InAddressOrder({b.source : b \in Range(keys_to_move)}
                   \cup {b.dest : b \in Range(keys_to_move)})

\* rebalance_on_node_join with its requests taken at once: the copies, then the
\* deletions.  hangs: the planning loop does not end; nothing has been sent by then.
rebalance_on_node_join(nodes, K, new_node_id, stores) ==
    LET plan == plan_node_join(nodes, K, new_node_id, stores)
    IN  IF plan.hangs
        THEN [hangs |-> TRUE, stores |-> stores]
        ELSE [hangs |-> FALSE,
              stores |-> RunDeletes(RunBatches(stores, plan.keys_to_copy), plan.keys_to_delete)]

\* the addresses an entry of the table can have, in their order
TableAddresses == Tail(AddressOrder)

\* the pairs of addresses in the order of (source, destination)
NodePairs ==
    [i \in 1..(Len(TableAddresses) * Len(TableAddresses)) |->
        <<TableAddresses[((i - 1) \div Len(TableAddresses)) + 1],
          TableAddresses[((i - 1) % Len(TableAddresses)) + 1]>>]

\* The planning of rebalance_on_node_failure on the table that still has the
\* failed node (manager.cpp:415-517).  The keys of the predecessors and successors
\* of the failed entries are planned; a key whose walk meets the failed node is
\* copied from its originator to the entry the walk ended on.  out_of_bounds: the failed node is the only
\* one, so that no neighbour is found and nodes[-1] is read (manager.cpp:456-459).
plan_node_failure(nodes, K, failed_id, stores) ==
    LET failed == IndicesOf(nodes, failed_id)
        neighbours == {PredecessorOf(nodes, failed_id, j) : j \in failed}
                      \cup {SuccessorOf(nodes, failed_id, j) : j \in failed}
        all_keys == UNION {get_all_keys_from_node(stores, nodes[j + 1].address) :
                              j \in neighbours}
        plan == [key \in all_keys |-> KeyPlan(nodes, K, failed_id, key)]
        moved == {key \in all_keys : plan[key].to_move}
        pairs == SelectSeq(NodePairs, LAMBDA pair : \E j, m \in 1..Len(nodes) :
                                                      pair = <<nodes[j].address, nodes[m].address>>)
        keys_to_move == [i \in 1..Len(pairs) |->
            Batch(SeqOfKeys({key \in moved :
                                /\ nodes[plan[key].originator + 1].address = pairs[i][1]
                                /\ nodes[plan[key].last + 1].address = pairs[i][2]}),
                  pairs[i][1], pairs[i][2])]
        nothing == [hangs |-> FALSE, out_of_bounds |-> FALSE, keys_to_move |-> <<>>]
    IN  IF nodes = <<>> \/ failed = {} THEN nothing
        ELSE IF (0 - 1) \in neighbours THEN [nothing EXCEPT !.out_of_bounds = TRUE]
        ELSE IF \E key \in all_keys : plan[key].hangs THEN [nothing EXCEPT !.hangs = TRUE]
        ELSE [nothing EXCEPT !.keys_to_move = NonEmpty(keys_to_move)]

\* rebalance_on_node_failure with its requests taken at once
rebalance_on_node_failure(nodes, K, failed_id, stores) ==
    LET plan == plan_node_failure(nodes, K, failed_id, stores)
    IN  [hangs |-> plan.hangs, out_of_bounds |-> plan.out_of_bounds,
         stores |-> RunBatches(stores, plan.keys_to_move)]

\* the failure rebalances of one monitor pass, one expired node after the other
RECURSIVE RebalanceFailures(_, _, _, _)
RebalanceFailures(nodes, K, expired, stores) ==
    IF expired = <<>> THEN [hangs |-> FALSE, out_of_bounds |-> FALSE, stores |-> stores]
    ELSE LET first == rebalance_on_node_failure(nodes, K, expired[1], stores) IN
         IF first.hangs \/ first.out_of_bounds THEN first
         ELSE RebalanceFailures(nodes, K, Tail(expired), first.stores)

\* broadcast_table_to_storage_nodes (manager.cpp:172-208): every node of the table
\* that can be reached takes the table and K of the TABLE_PUSH
Broadcast(table, K) ==
    LET push == pushed_table(table, K) IN
    /\ routing_table' = [n \in Nodes |->
                            IF up[n] /\ storage_id(n) \in PhysicalNodes(table)
                            THEN push.nodes ELSE routing_table[n]]
    /\ replication_factor' = [n \in Nodes |->
                                 IF up[n] /\ storage_id(n) \in PhysicalNodes(table)
                                 THEN push.replication_factor
                                 ELSE replication_factor[n]]

\* The registration handler after the reply (manager.cpp:89-91):
\* rebalance_on_node_join on a snapshot of the table, then the broadcast.  The
\* requests are taken in one step; the nodes the rebalance pauses are resumed at
\* its end.  A rebalance whose planning loop does not end keeps the handler in it.
JoinRebalance(n) ==
    LET result == rebalance_on_node_join(node_table, manager_K, storage_id(n), kv_store) IN
    /\ ManagerRuns /\ ~MutexHeld
    /\ reg[n] = "rebalance"
    /\ IF result.hangs
       THEN /\ reg' = [reg EXCEPT ![n] = "hung"]
            /\ UNCHANGED <<kv_store, routing_table, replication_factor>>
       ELSE /\ reg' = [reg EXCEPT ![n] = "idle"]
            /\ kv_store' = result.stores
            /\ Broadcast(node_table, manager_K)
    /\ UNCHANGED <<key_locks, paused, up, thr, hashv, quiescence, cl, node_table,
                   manager_K, heartbeat_times, now, mon, codec, pass>>

-----------------------------------------------------------------------------
(* The manager: monitor_heartbeats *)

\* the number of periods the model's clock runs for
MaxPeriods == 4

\* the period of the monitor and of the heartbeat loop, in seconds
\* (manager.cpp:716, storage.cpp:48)
SleepSeconds == 2

\* the clock advances by one period
Tick ==
    /\ now < MaxPeriods * SleepSeconds
    /\ now' = now + SleepSeconds
    /\ UNCHANGED <<kv_store, key_locks, paused, routing_table, replication_factor, up,
                   thr, hashv, quiescence, cl, node_table, manager_K, heartbeat_times,
                   mon, reg, codec, pass>>

\* the physical nodes of the table whose heartbeat is older than the timeout or
\* absent (manager.cpp:728-753)
ExpiredNodes(table, times, time) ==
    {id \in PhysicalNodes(table) :
        id \notin DOMAIN times \/ time - times[id] > HeartbeatTimeout}

\* The monitor wakes, copies the table under node_table_mutex and decides which
\* nodes are expired (manager.cpp:716-753).  heartbeat_times is read without
\* heartbeat_mutex; the reads of one pass are taken in one step.
MonitorScan ==
    /\ mon.pc = "sleep"
    /\ ExpiredNodes(node_table, heartbeat_times, now) # {}
    /\ mon' = [pc |-> "expired", now |-> now,
               expired |-> ExpiredNodes(node_table, heartbeat_times, now)]
    /\ UNCHANGED <<kv_store, key_locks, paused, routing_table, replication_factor, up,
                   thr, hashv, quiescence, cl, node_table, manager_K, heartbeat_times,
                   now, reg, codec, pass>>

\* the ids in the order of a std::set<string>
IdsInOrder(ids) == SelectSeq([i \in 1..Len(NodeOrder) |-> storage_id(NodeOrder[i])]
                                \o <<GoneNode(0).node_id>>,
                             LAMBDA id : id \in ids)

\* a block that runs the rebalance and leaves the table as it is
MonitorRemoveKeeps ==
    LET result == RebalanceFailures(node_table, manager_K, IdsInOrder(mon.expired), kv_store)
    IN  /\ mon.pc = "expired"
        /\ \/ /\ result.hangs
              /\ mon' = [mon EXCEPT !.pc = "hung"]
              /\ UNCHANGED <<kv_store, node_table>>
           \/ /\ result.out_of_bounds
              /\ mon' = [mon EXCEPT !.pc = "crashed"]
              /\ UNCHANGED <<kv_store, node_table>>
           \/ /\ ~result.hangs
              /\ kv_store' = result.stores
              /\ node_table' = node_table
              /\ mon' = [mon EXCEPT !.pc = "forget"]
        /\ UNCHANGED <<key_locks, paused, routing_table, replication_factor, up, thr,
                       hashv, quiescence, cl, manager_K, heartbeat_times, now, reg, codec, pass>>

\* The block under node_table_mutex (manager.cpp:756-770): the failure rebalance
\* of every expired node on the table as it is now, then the removal of their
\* entries.  A rebalance whose planning loop does not end leaves the monitor in
\* the block for good; one that reads nodes[-1] ends the process or goes on with
\* no key to move.
MonitorRemove ==
    LET result == RebalanceFailures(node_table, manager_K, IdsInOrder(mon.expired), kv_store)
        removed == SelectSeq(node_table, LAMBDA entry : entry.node_id \notin mon.expired)
    IN  /\ mon.pc = "expired"
        /\ \/ /\ result.hangs
              /\ mon' = [mon EXCEPT !.pc = "hung"]
              /\ UNCHANGED <<kv_store, node_table>>
           \/ /\ result.out_of_bounds
              /\ mon' = [mon EXCEPT !.pc = "crashed"]
              /\ UNCHANGED <<kv_store, node_table>>
           \/ /\ ~result.hangs
              /\ kv_store' = result.stores
              /\ node_table' = removed
              /\ mon' = [mon EXCEPT !.pc = "forget"]
        /\ UNCHANGED <<key_locks, paused, routing_table, replication_factor, up, thr,
                       hashv, quiescence, cl, manager_K, heartbeat_times, now, reg, codec, pass>>

\* the block under heartbeat_mutex (manager.cpp:771-776)
MonitorForget ==
    /\ mon.pc = "forget"
    /\ heartbeat_times' = [id \in DOMAIN heartbeat_times \ mon.expired |-> heartbeat_times[id]]
    /\ mon' = [mon EXCEPT !.pc = "broadcast"]
    /\ UNCHANGED <<kv_store, key_locks, paused, routing_table, replication_factor, up,
                   thr, hashv, quiescence, cl, node_table, manager_K, now, reg, codec, pass>>

\* the end of the pass (manager.cpp:786-787): the broadcast
MonitorBroadcast ==
    /\ mon.pc = "broadcast"
    /\ Broadcast(node_table, manager_K)
    /\ mon' = MonitorAsleep
    /\ UNCHANGED <<kv_store, key_locks, paused, up, thr, hashv, quiescence, cl,
                   node_table, manager_K, heartbeat_times, now, reg, codec, pass>>


-----------------------------------------------------------------------------
(* The manager's ring under registrations, heartbeats and failures *)

\* the texts whose hash gives the tokens of p and q
TokenInputs == {storage_id(n) \o to_string(i) : n \in Nodes, i \in 0..(VNODES_PER_NODE - 1)}

\* the hash on the token inputs and the keys: the tokens of the two nodes
\* alternate on the ring and q's come out of the hash in descending order
RingHashes ==
    {(<<"p", "0">> :> 5 @@ <<"p", "1">> :> 9 @@ <<"q", "0">> :> 7 @@ <<"q", "1">> :> 3
         @@ KeyA :> 4 @@ KeyB :> 7)}

\* the manager has started with K = 2; no storage process runs yet
InitRing ==
    /\ kv_store = [n \in Nodes |-> EmptyMap]
    /\ key_locks = [n \in Nodes |-> EmptyMap]
    /\ paused = [n \in Nodes |-> FALSE]
    /\ routing_table = [n \in Nodes |-> <<>>]
    /\ replication_factor = [n \in Nodes |-> 1]
    /\ up = [n \in Nodes |-> FALSE]
    /\ thr = [h \in Threads |-> FreeThread]
    /\ hashv \in RingHashes
    /\ quiescence = [n \in Nodes |-> "none"]
    /\ cl = NoClients
    /\ node_table = <<>>
    /\ manager_K = 2
    /\ heartbeat_times = [id \in {} |-> 0]
    /\ now = 0
    /\ mon = MonitorAsleep
    /\ reg = [n \in Nodes |-> "idle"]
    /\ codec = NoCodec
    /\ pass = NoPass

\* Storage processes start, send heartbeats, die and start again while the clock
\* advances and the monitor makes its passes.
NextRing ==
    \/ Tick
    \/ \E n \in Nodes : StorageRegister(n)
    \/ \E n \in Nodes : JoinRebalance(n)
    \/ \E n \in Nodes : Heartbeat(n)
    \/ \E n \in Nodes : KillNode(n)
    \/ MonitorScan
    \/ MonitorRemove
    \/ MonitorForget
    \/ MonitorBroadcast

SpecRing == InitRing /\ [][NextRing]_vars

\* C13: ring monotonicity.  In every reachable state of the manager, after any
\* sequence of registrations, re-registrations and failure removals, node_table is
\* sorted by token ascending.
RingSortedByToken ==
    \A i, j \in 1..Len(node_table) : i < j => node_table[i].token <= node_table[j].token

\* both nodes are in the ring and the entries of q, pushed after those of p, lie
\* around an entry of p
RingSortedByTokenWitness ==
    /\ Len(node_table) = 2 * VNODES_PER_NODE
    /\ heartbeat_times[storage_id("p")] < heartbeat_times[storage_id("q")]
    /\ \E i, j, m \in 1..Len(node_table) :
          /\ i < j /\ j < m
          /\ node_table[i].node_id = storage_id("q")
          /\ node_table[j].node_id = storage_id("p")
          /\ node_table[m].node_id = storage_id("q")

\* C18: the manager removes a physical node from node_table only if, when its
\* entries are removed, its most recent heartbeat or registration is older than the
\* failure timeout (or it has none); a node that registers or registers again
\* stays in the ring until its heartbeat next expires, under every interleaving of
\* the monitor with the registration and heartbeat handlers.
RemovedOnlyWhenExpired ==
    [][\A id \in PhysicalNodes(node_table) :
          id \notin PhysicalNodes(node_table') =>
             \/ id \notin DOMAIN heartbeat_times
             \/ now - heartbeat_times[id] > HeartbeatTimeout]_vars


-----------------------------------------------------------------------------
(* Who holds a key: the client's attempts, the primary's fan-out, the manager's walk *)

\* C14: for a fixed ring and K, the nodes a client contacts for a key on its
\* attempts are the key's preference list: from the first entry whose token is >=
\* the hash (index 0 when there is none), min(K, distinct physical nodes) pairwise
\* distinct physical nodes, the same on every invocation.  A put makes every
\* attempt, so a finished put has contacted exactly that list.
AttemptsArePreferenceList ==
    \A c \in Clients :
       LET k == cl[c]
           pref == PreferenceList(k.routing_table, k.replication_factor, std_hash(k.key))
       IN  PutDone(c) => k.tried = pref

\* the number of attempts of a put or get (client.cpp:140-141, 214-215)
attempts(table, K) == Min(K, Max(1, Len(table)))

\* The sets of physical nodes the attempts of the client can reach on a table that
\* is not empty (client.cpp:23-41, 155-157): one entry of pick_node_for_attempt for
\* each attempt.
client_replicas(table, K, key) ==
    {{choice[attempt].node_id : attempt \in 0..(attempts(table, K) - 1)} :
        choice \in {f \in [0..(attempts(table, K) - 1) -> Range(table)] :
                       \A attempt \in 0..(attempts(table, K) - 1) :
                          f[attempt] \in pick_node_for_attempt(table, key, attempt)}}

\* The physical nodes that hold the key after the fan-out of the primary
\* (storage.cpp:124-160): the primary with id self, and the entries at the K
\* indices from primary_idx other than cur_idx.
storage_replicas(table, K, key, self) ==
    LET cur_idx == FirstIndexOf(table, self)
        primary_idx == PrimaryIndex(table, std_hash(key))
        targets == {ReplicaIndex(primary_idx, rep, Len(table)) : rep \in 0..(K - 1)}
                   \ {cur_idx}
    IN  {self} \cup {table[replica_idx + 1].node_id : replica_idx \in targets}

\* The physical nodes the walk of the manager selects for the key when the node
\* with changed_id has joined (manager.cpp:617-660): the ids it has seen, without
\* the one it deletes the key from when the walk met the new node.
manager_replicas(table, K, key, changed_id) ==
    LET plan == KeyPlan(table, K, changed_id, key) IN
    IF plan.to_move /\ ~plan.hangs
    THEN plan.seen \ {table[plan.last + 1].node_id}
    ELSE plan.seen

\* C15: on the same ring snapshot, K and key hash, the client (its attempts), the
\* storage primary (its fan-out targets and itself) and the manager (its
\* rebalancing walk) select the same set of physical nodes for a key.
ActorsSelectSameReplicas ==
    \A key \in ClientKeys :
       \A chosen \in client_replicas(node_table, manager_K, key) :
          /\ \A first \in pick_node_for_attempt(node_table, key, 0) :
                chosen = storage_replicas(node_table, manager_K, key, first.node_id)
          /\ \A changed_id \in PhysicalNodes(node_table) :
                chosen = manager_replicas(node_table, manager_K, key, changed_id)


-----------------------------------------------------------------------------
(* A node joins a ring that holds keys *)

\* a client object before init (client.cpp:11-15)
ConstructedClient ==
    [pc |-> "new", op |-> "none", key |-> <<>>, value |-> <<>>, payload |-> <<>>,
     attempt |-> 0, replicas |-> 0, stored |-> 0, primary_fd |-> 0 - 1, conn |-> 0,
     routing_table |-> <<>>, replication_factor |-> 0,
     put_result |-> "none", get_result |-> <<>>, got_ok |-> FALSE, tried |-> <<>>,
     last |-> [k \in ClientKeys |-> NoAck]]

\* init (client.cpp:122-131): the client takes the manager's table; CLIENT_HELLO is
\* answered from node_table under node_table_mutex
ClientInit(c) ==
    /\ ManagerRuns /\ ~MutexHeld
    /\ cl[c].pc = "new"
    /\ cl' = [cl EXCEPT ![c] = NewClient]
    /\ UNCHANGED <<thr, cluster_vars>>

\* the hash on the token inputs and the keys in three builds: the tokens of q
\* follow those of p, or alternate with them; a falls on an entry of p, and b on
\* an entry of q in the first two builds and on one of p in the third
JoinHashes ==
    {(<<"p", "0">> :> 5 @@ <<"p", "1">> :> 6 @@ <<"q", "0">> :> 7 @@ <<"q", "1">> :> 8
         @@ KeyA :> 4 @@ KeyB :> 7),
     (<<"p", "0">> :> 5 @@ <<"p", "1">> :> 9 @@ <<"q", "0">> :> 7 @@ <<"q", "1">> :> 3
         @@ KeyA :> 4 @@ KeyB :> 7),
     (<<"p", "0">> :> 5 @@ <<"p", "1">> :> 9 @@ <<"q", "0">> :> 6 @@ <<"q", "1">> :> 10
         @@ KeyA :> 4 @@ KeyB :> 8)}

\* the values the keys were put with before the join, as the store holds them
StoredBeforeJoin == (KeyA :> <<"x">> @@ KeyB :> <<"y">>)

\* Node p has registered with an empty ring and holds both keys; q has not
\* started; no client has done init.
InitJoin ==
    /\ manager_K \in KChoices
    /\ hashv \in JoinHashes
    /\ node_table \in handle_storage_register(<<>>, RegisterPayload("p")).tables
    /\ kv_store = [n \in Nodes |-> IF n = "p" THEN StoredBeforeJoin ELSE EmptyMap]
    /\ key_locks = [n \in Nodes |-> EmptyMap]
    /\ paused = [n \in Nodes |-> FALSE]
    /\ routing_table = [n \in Nodes |->
                           IF n = "p" THEN pushed_table(node_table, manager_K).nodes ELSE <<>>]
    /\ replication_factor = [n \in Nodes |-> IF n = "p" THEN manager_K ELSE 1]
    /\ up = [n \in Nodes |-> n = "p"]
    /\ thr = [h \in Threads |-> FreeThread]
    /\ quiescence = [n \in Nodes |-> "none"]
    /\ cl = [c \in Clients |-> ConstructedClient]
    /\ heartbeat_times = [id \in {storage_id("p")} |-> 0]
    /\ now = 0
    /\ mon = MonitorAsleep
    /\ reg = [n \in Nodes |-> "idle"]
    /\ codec = NoCodec
    /\ pass = NoPass

\* the registration handler of q has ended, or is in a loop it never leaves
JoinSettled == up["q"] /\ reg["q"] # "rebalance"

\* Node q starts and registers, the manager rebalances; clients start at any
\* time and read the keys once the join is settled.
NextJoin ==
    \/ \E n \in Nodes : StorageRegister(n)
    \/ \E n \in Nodes : JoinRebalance(n)
    \/ \E c \in Clients : ClientInit(c)
    \/ \E c \in Clients : JoinSettled /\ GetStart(c)
    \/ \E c \in Clients : GetSend(c)
    \/ \E c \in Clients : GetRecv(c)
    \/ \E c \in Clients : GetEnd(c)
    \/ \E h \in Threads : HandleGet(h)

SpecJoin == InitJoin /\ [][NextJoin]_vars

\* C11: join preservation.  For every K >= 1 and every key stored before a new
\* node registers and not overwritten afterwards, a client get of the key issued
\* after the registration returns the value the key had before the join.
JoinPreservesKeys ==
    \A c \in Clients :
       (cl[c].op = "get" /\ cl[c].pc = "idle")
       => cl[c].get_result = parse_value(StoredBeforeJoin[cl[c].key])


-----------------------------------------------------------------------------
(* A node fails in a ring that holds keys *)

\* the hash on the token inputs and the keys: the tokens of q follow those of p;
\* a falls on the last entry of p and b on the first
FailHashes ==
    {(<<"p", "0">> :> 5 @@ <<"p", "1">> :> 6 @@ <<"q", "0">> :> 7 @@ <<"q", "1">> :> 8
         @@ KeyA :> 6 @@ KeyB :> 5)}

\* Both nodes have registered, p first, and hold the manager's table; the stores
\* are empty; the clients have done init.
InitFail ==
    /\ manager_K = 2
    /\ hashv \in FailHashes
    /\ node_table \in UNION {handle_storage_register(table, RegisterPayload("q")).tables :
                               table \in handle_storage_register(<<>>, RegisterPayload("p")).tables}
    /\ kv_store = [n \in Nodes |-> EmptyMap]
    /\ key_locks = [n \in Nodes |-> EmptyMap]
    /\ paused = [n \in Nodes |-> FALSE]
    /\ routing_table = [n \in Nodes |-> pushed_table(node_table, manager_K).nodes]
    /\ replication_factor = [n \in Nodes |-> manager_K]
    /\ up = [n \in Nodes |-> TRUE]
    /\ thr = [h \in Threads |-> FreeThread]
    /\ quiescence = [n \in Nodes |-> "none"]
    /\ cl = [c \in Clients |-> NewClient]
    /\ ManagerAtRest
    /\ codec = NoCodec
    /\ pass = NoPass

\* no request is under way
Quiet ==
    /\ \A h \in Threads : thr[h].pc = "free"
    /\ \A c \in Clients : cl[c].pc \in {"idle", "dead"}

\* every node that runs has sent the heartbeat of this period
HeartbeatsIn == \A n \in Nodes : up[n] => heartbeat_times[storage_id(n)] = now

\* the manager has removed p and pushed the new table
FailureHandled ==
    /\ ~up["p"]
    /\ storage_id("p") \notin PhysicalNodes(node_table)
    /\ mon.pc = "sleep"

\* The clients put while both nodes run; p dies between two requests; q keeps
\* sending its heartbeat every period while the monitor makes its passes; the
\* clients read once the manager has handled the failure.
NextFail ==
    \/ \E c \in Clients : up["p"] /\ PutStart(c)
    \/ \E c \in Clients : PutSend(c)
    \/ \E c \in Clients : PutRecv(c)
    \/ \E c \in Clients : PutEnd(c)
    \/ \E h \in Threads : HandlePut(h)
    \/ \E h \in Threads : TryAcquire(h)
    \/ \E h \in Threads : WriteStore(h)
    \/ \E h \in Threads : FindRoute(h)
    \/ \E h \in Threads : FanoutSend(h)
    \/ \E h \in Threads : FanoutRecv(h)
    \/ \E h \in Threads : ReleaseLock(h)
    \/ Quiet /\ KillNode("p")
    \/ ~up["p"] /\ HeartbeatsIn /\ Tick
    \/ \E n \in Nodes : Heartbeat(n)
    \/ MonitorScan
    \/ MonitorRemove
    \/ MonitorForget
    \/ MonitorBroadcast
    \/ \E c \in Clients : FailureHandled /\ GetStart(c)
    \/ \E c \in Clients : GetSend(c)
    \/ \E c \in Clients : GetRecv(c)
    \/ \E c \in Clients : GetEnd(c)
    \/ \E h \in Threads : HandleGet(h)

SpecFail == InitFail /\ [][NextFail]_vars

\* C12: failure preservation.  With K >= 2 and at least two physical nodes, when
\* exactly one node stops sending heartbeats and is removed by the manager, a
\* client get issued after the failure handling returns, for every key stored
\* before the failure, the value it had then.
FailurePreservesKeys ==
    \A c \in Clients :
       (cl[c].op = "get" /\ cl[c].pc = "idle" /\ cl[c].last[cl[c].key].known)
       => cl[c].get_result = cl[c].last[cl[c].key].value


-----------------------------------------------------------------------------
(* The owners of the lock table *)

\* C21: every entry of the lock table of a node belongs to a CLIENT_PUT handler that
\* runs on the node between its lock acquisition and its lock release, so the lock
\* table of a node without a running CLIENT_PUT handler is empty.
LocksBelongToRunningPuts ==
    \A n \in Nodes : \A k \in DOMAIN key_locks[n] :
       \E h \in Threads : thr[h].node = n /\ k \in Held(h)


-----------------------------------------------------------------------------
(* The paused flag *)

\* the two messages that set the flag, the client's requests that read it, and the
\* manager's requests that change the store or the ring of the node
PauseMessages ==
    {Message("PAUSE_NODE", <<>>), Message("RESUME_NODE", <<>>),
     Message("AVAILABILITY_CHECK", <<>>),
     Message("CLIENT_PUT", PutBX), Message("CLIENT_GET", KeyB),
     Message("CLIENT_DELETE", KeyB), Message("MANAGER_DELETE", KeyB),
     Message("TABLE_PUSH", TableWithoutP)}

\* A node that has just run init takes any message at any time.
NextPause ==
    \/ \E h \in Threads : CloseEnv(h)
    \/ \E h \in Threads : ~ReplyPending /\ Receive(h, PauseMessages)
    \/ \E h \in Threads : ~ReplyPending /\ PauseNode(h)
    \/ \E h \in Threads : ~ReplyPending /\ ResumeNode(h)
    \/ \E h \in Threads : ~ReplyPending /\ AvailabilityCheck(h)
    \/ \E h \in Threads : ~ReplyPending /\ RejectPaused(h)
    \/ \E h \in Threads : ~ReplyPending /\ UnknownType(h)
    \/ \E h \in Threads : ~ReplyPending /\ HandlePut(h)
    \/ \E h \in Threads : ~ReplyPending /\ TryAcquire(h)
    \/ \E h \in Threads : ~ReplyPending /\ WriteStore(h)
    \/ \E h \in Threads : ~ReplyPending /\ FindRoute(h)
    \/ \E h \in Threads : ~ReplyPending /\ FanoutSend(h)
    \/ \E h \in Threads : ~ReplyPending /\ FanoutRecv(h)
    \/ \E h \in Threads : ~ReplyPending /\ ReleaseLock(h)
    \/ \E h \in Threads : ~ReplyPending /\ HandleGet(h)
    \/ \E h \in Threads : ~ReplyPending /\ HandleDelete(h)
    \/ \E h \in Threads : ~ReplyPending /\ TablePush(h)

SpecPause == InitDispatch /\ [][NextPause]_vars


\* C22: the paused flag of a node starts false; it is true exactly when the last
\* message processed among PAUSE_NODE and RESUME_NODE was PAUSE_NODE; PAUSE_NODE sets
\* it and is answered PAUSE_ACK, RESUME_NODE clears it and is answered RESUME_ACK,
\* whatever the flag was, and the handling of any other message leaves it alone.
PausedStateMachine ==
    /\ \A n \in Nodes : ~paused[n]
    /\ [](\A n \in Nodes : paused[n] <=> quiescence[n] # "none")
    /\ [][\A h \in Threads :
             (thr[h].pc = "dispatch" /\ thr'[h] # thr[h]) =>
                LET n == thr[h].node IN
                CASE thr[h].type = "PAUSE_NODE" ->
                        /\ paused' = [paused EXCEPT ![n] = TRUE]
                        /\ thr'[h].reply = Message("PAUSE_ACK", <<"paused">>)
                  [] thr[h].type = "RESUME_NODE" ->
                        /\ paused' = [paused EXCEPT ![n] = FALSE]
                        /\ thr'[h].reply = Message("RESUME_ACK", <<"resumed">>)
                  [] OTHER -> paused' = paused]_vars
    /\ [][(\A h \in Threads : thr[h].pc = "dispatch" => thr'[h] = thr[h])
             => paused' = paused]_vars

\* a node that was paused when a second PAUSE_NODE arrived has answered it PAUSE_ACK
\* and is paused
PausedStateMachineWitness ==
    \E h \in Threads :
       /\ thr[h].type = "PAUSE_NODE" /\ thr[h].is_paused
       /\ thr[h].reply = Message("PAUSE_ACK", <<"paused">>)
       /\ paused[thr[h].node]


-----------------------------------------------------------------------------
(* What a registration leaves in the table *)

\* the entries of table that belong to the node id, in the order of the table
EntriesOf(table, id) == SelectSeq(table, LAMBDA entry : entry.node_id = id)

\* the entries of table that belong to other ids, in the order of the table
EntriesOfOthers(table, id) == SelectSeq(table, LAMBDA entry : entry.node_id # id)

\* C23: when the manager has processed the STORAGE_REGISTER of node n, the table the
\* other threads see holds exactly VNODES_PER_NODE entries of n, each with the
\* address of this registration, the entries of the other nodes are the ones it held
\* before, and the heartbeat time of n is the time of the registration.
RegistrationReplacesEntries ==
    [][\A n \in Nodes :
          (reg[n] = "idle" /\ reg'[n] = "rebalance") =>
             LET id == storage_id(n)
                 mine == EntriesOf(node_table', id)
             IN  /\ Len(mine) = VNODES_PER_NODE
                 /\ \A i \in 1..Len(mine) : mine[i].address = addr(n)
                 /\ EntriesOfOthers(node_table', id) = EntriesOfOthers(node_table, id)
                 /\ id \in DOMAIN heartbeat_times' /\ heartbeat_times'[id] = now]_vars

\* node n, which the monitor found expired in the table, has registered again before
\* the monitor removed its entries, while the other node is in the table
RegistrationReplacesEntriesWitness ==
    \E n \in Nodes :
       /\ reg[n] = "rebalance" /\ mon.pc = "expired" /\ storage_id(n) \in mon.expired
       /\ heartbeat_times[storage_id(n)] = now /\ mon.now = now
       /\ EntriesOfOthers(node_table, storage_id(n)) # <<>>


-----------------------------------------------------------------------------
(* The order of a monitor pass *)

\* the table holds an entry of the node id
HasEntry(table, id) == EntriesOf(table, id) # <<>>

\* the monitor leaves the block under node_table_mutex
RemovalStep == mon.pc = "expired" /\ mon'.pc = "forget"

\* the monitor broadcasts
BroadcastStep == mon.pc = "broadcast" /\ mon'.pc = "sleep"

\* the positions of a pass follow one another as in the loop body, the rebalance
\* runs on the table that still holds the entries of every expired node, and the
\* block it runs in erases all of them and nothing else
RebalanceThenRemoval ==
    /\ mon' # mon =>
          <<mon.pc, mon'.pc>> \in {<<"sleep", "expired">>, <<"expired", "forget">>,
                                   <<"expired", "hung">>, <<"expired", "crashed">>,
                                   <<"forget", "broadcast">>, <<"broadcast", "sleep">>}
    /\ RemovalStep =>
          /\ \A id \in mon.expired : HasEntry(node_table, id)
          /\ kv_store' = RebalanceFailures(node_table, manager_K,
                                           IdsInOrder(mon.expired), kv_store).stores
          /\ node_table' = SelectSeq(node_table, LAMBDA entry : entry.node_id \notin mon.expired)
    /\ (mon.pc \in {"sleep", "expired", "forget"} /\ mon' # mon) =>
          routing_table' = routing_table

\* C24: in a monitor pass that finds expired nodes the failure rebalance runs on a
\* table that still holds their entries, then all their entries are removed in one
\* critical section, then the table is broadcast, and no table the broadcast
\* delivers holds an entry of an expired node.
MonitorPassOrder ==
    [][/\ RebalanceThenRemoval
       /\ BroadcastStep =>
             \A n \in Nodes : routing_table'[n] # routing_table[n] =>
                \A id \in mon.expired : ~HasEntry(routing_table'[n], id)]_vars

\* C24, as the code has it: the order is the one above; the broadcast delivers the
\* table of the moment it runs, in which an expired node has entries only when it
\* registered again after the removal.
MonitorPassOrderUnlessRegistered ==
    [][/\ RebalanceThenRemoval
       /\ mon.pc \in {"forget", "broadcast"} =>
             \A n \in Nodes :
                (storage_id(n) \in mon.expired /\ ~HasEntry(node_table, storage_id(n))
                   /\ HasEntry(node_table', storage_id(n)))
                => (reg[n] = "idle" /\ reg'[n] = "rebalance")
       /\ BroadcastStep =>
             \A n \in Nodes : routing_table'[n] # routing_table[n] =>
                routing_table'[n] = pushed_table(node_table, manager_K).nodes]_vars

\* the monitor is about to broadcast a table in which a node it removed in this pass
\* has registered again, and the other node is up to take it
MonitorPassOrderWitness ==
    /\ mon.pc = "broadcast"
    /\ \E n, m \in Nodes :
          /\ storage_id(n) \in mon.expired /\ HasEntry(node_table, storage_id(n))
          /\ m # n /\ up[m] /\ HasEntry(node_table, storage_id(m))


-----------------------------------------------------------------------------
(* A rebalance pass, request by request *)

\* the default of the parameter max_attempts of wait_for_availability
max_attempts == 30

\* a request of a pass that reached the node listening at the address
Sent(type, address) == [type |-> type, to |-> address]

\* NextRequest of a pass whose resume loop (manager.cpp:706-708, 554-556) is missing
RECURSIVE NextRequestNoResume(_)
NextRequestNoResume(p) ==
    CASE p.pc = "pause" /\ p.i > Len(p.affected) ->
            NextRequestNoResume([p EXCEPT !.pc = "wait", !.i = 1, !.attempt = 0])
      [] p.pc = "wait" /\ p.i > Len(p.affected) ->
            NextRequestNoResume([p EXCEPT !.pc = "copy", !.i = 1])
      [] p.pc = "copy" /\ p.i > Len(p.copies) ->
            NextRequestNoResume([p EXCEPT !.pc = "delete", !.i = 1])
      [] p.pc = "delete" /\ p.i > Len(p.deletes) -> [p EXCEPT !.pc = "end", !.i = 0]
      [] OTHER -> p

\* the position of a pass once the loops that have nothing left are passed over:
\* the pauses, the availability waits, the copies, the deletions, the resumes
RECURSIVE NextRequest(_)
NextRequest(p) ==
    CASE p.pc = "pause" /\ p.i > Len(p.affected) ->
            NextRequest([p EXCEPT !.pc = "wait", !.i = 1, !.attempt = 0])
      [] p.pc = "wait" /\ p.i > Len(p.affected) ->
            NextRequest([p EXCEPT !.pc = "copy", !.i = 1])
      [] p.pc = "copy" /\ p.i > Len(p.copies) ->
            NextRequest([p EXCEPT !.pc = "delete", !.i = 1])
      [] p.pc = "delete" /\ p.i > Len(p.deletes) ->
            NextRequest([p EXCEPT !.pc = "resume", !.i = 1])
      [] p.pc = "resume" /\ p.i > Len(p.affected) -> [p EXCEPT !.pc = "end", !.i = 0]
      [] OTHER -> p

\* a pass that has planned and sent nothing yet
StartPass(changed_id, affected, copies, deletes, todo) ==
    NextRequest([IdlePass EXCEPT !.pc = "pause", !.i = 1, !.changed_id = changed_id,
                                 !.affected = affected, !.copies = copies,
                                 !.deletes = deletes, !.todo = todo])

\* pause_node (manager.cpp:323-347) inside the pause loop (665-667, 521-523): the
\* node that listens at the address sets its flag and acks; the result is not used
PauseAffected(w) ==
    LET p == pass[w]
        n == connect_to_host(p.affected[p.i])
    IN  /\ ManagerRuns /\ p.pc = "pause"
        /\ IF n = "none"
           THEN /\ pass' = [pass EXCEPT ![w] = NextRequest([p EXCEPT !.i = p.i + 1])]
                /\ UNCHANGED <<paused, quiescence>>
           ELSE /\ paused' = [paused EXCEPT ![n] = TRUE]
                /\ quiescence' = [quiescence EXCEPT ![n] = IF @ = "quiet" THEN @ ELSE "acked"]
                /\ pass' = [pass EXCEPT ![w] =
                               NextRequest([p EXCEPT !.i = p.i + 1,
                                                     !.sent = Append(@, Sent("PAUSE_NODE", p.affected[p.i]))])]
        /\ UNCHANGED <<kv_store, key_locks, routing_table, replication_factor, up, thr,
                       hashv, cl, node_table, manager_K, heartbeat_times, now, mon, reg,
                       codec>>

\* wait_for_availability without the limit of its loop (manager.cpp:378)
CheckAvailabilityUnbounded(w) ==
    LET p == pass[w]
        n == connect_to_host(p.affected[p.i])
        yes == is_available(key_locks[n])
        next_node == [p EXCEPT !.i = p.i + 1, !.attempt = 0]
        asked == Append(p.sent, Sent("AVAILABILITY_CHECK", p.affected[p.i]))
    IN  /\ ManagerRuns /\ p.pc = "wait"
        /\ IF n = "none"
           THEN /\ pass' = [pass EXCEPT ![w] = NextRequest(next_node)]
                /\ UNCHANGED quiescence
           ELSE /\ quiescence' = [quiescence EXCEPT ![n] =
                                     IF @ = "acked" /\ yes THEN "quiet" ELSE @]
                /\ pass' = [pass EXCEPT ![w] =
                               IF yes
                               THEN NextRequest([next_node EXCEPT !.sent = asked])
                               ELSE [p EXCEPT !.attempt = p.attempt + 1]]
        /\ UNCHANGED <<kv_store, key_locks, paused, routing_table, replication_factor, up,
                       thr, hashv, cl, node_table, manager_K, heartbeat_times, now, mon,
                       reg, codec>>

\* one attempt of wait_for_availability (manager.cpp:377-412) inside the wait loop
\* (671-675, 527-531): the wait for a node ends when the node cannot be reached,
\* when it answers yes, and after max_attempts answers no.  attempt counts the
\* AVAILABILITY_CHECKs the node has answered no; sent keeps the one that ended the
\* wait.
CheckAvailability(w) ==
    LET p == pass[w]
        n == connect_to_host(p.affected[p.i])
        yes == is_available(key_locks[n])
        next_node == [p EXCEPT !.i = p.i + 1, !.attempt = 0]
        asked == Append(p.sent, Sent("AVAILABILITY_CHECK", p.affected[p.i]))
    IN  /\ ManagerRuns /\ p.pc = "wait"
        /\ IF n = "none"
           THEN /\ pass' = [pass EXCEPT ![w] = NextRequest(next_node)]
                /\ UNCHANGED quiescence
           ELSE /\ quiescence' = [quiescence EXCEPT ![n] =
                                     IF @ = "acked" /\ yes THEN "quiet" ELSE @]
                /\ pass' = [pass EXCEPT ![w] =
                               IF yes \/ p.attempt + 1 >= max_attempts
                               THEN NextRequest([next_node EXCEPT !.sent = asked])
                               ELSE [p EXCEPT !.attempt = p.attempt + 1]]
        /\ UNCHANGED <<kv_store, key_locks, paused, routing_table, replication_factor, up,
                       thr, hashv, cl, node_table, manager_K, heartbeat_times, now, mon,
                       reg, codec>>

\* the requests of one batch (manager.cpp:685-691, 541-547): MANAGER_GET to the
\* source and, when it returned one value per key, REPL_PUT to the destination
BatchRequests(stores, b) ==
    (IF connect_to_host(b.source) = "none" THEN <<>> ELSE <<Sent("MANAGER_GET", b.source)>>)
    \o (IF Len(get_key_from_node(stores, b.keys, b.source)) # Len(b.keys)
           \/ connect_to_host(b.dest) = "none"
        THEN <<>> ELSE <<Sent("REPL_PUT", b.dest)>>)

\* one round of the copy loop (manager.cpp:678-693, 534-550)
CopyBatch(w) ==
    LET p == pass[w]
        b == p.copies[p.i]
    IN  /\ ManagerRuns /\ p.pc = "copy"
        /\ kv_store' = MoveBatch(kv_store, b.keys, b.source, b.dest)
        /\ pass' = [pass EXCEPT ![w] =
                       NextRequest([p EXCEPT !.i = p.i + 1,
                                             !.sent = @ \o BatchRequests(kv_store, b)])]
        /\ UNCHANGED <<key_locks, paused, routing_table, replication_factor, up, thr,
                       hashv, quiescence, cl, node_table, manager_K, heartbeat_times, now,
                       mon, reg, codec>>

\* one round of the delete loop of rebalance_on_node_join (manager.cpp:695-702)
DeleteBatch(w) ==
    LET p == pass[w]
        b == p.deletes[p.i]
    IN  /\ ManagerRuns /\ p.pc = "delete"
        /\ kv_store' = delete_key_from_node(kv_store, b.keys, b.source)
        /\ pass' = [pass EXCEPT ![w] =
                       NextRequest([p EXCEPT !.i = p.i + 1,
                                             !.sent = IF connect_to_host(b.source) = "none" THEN @
                                                      ELSE Append(@, Sent("MANAGER_DELETE", b.source))])]
        /\ UNCHANGED <<key_locks, paused, routing_table, replication_factor, up, thr,
                       hashv, quiescence, cl, node_table, manager_K, heartbeat_times, now,
                       mon, reg, codec>>

\* resume_node (manager.cpp:350-374) inside the resume loop (706-708, 554-556)
ResumeAffected(w) ==
    LET p == pass[w]
        n == connect_to_host(p.affected[p.i])
    IN  /\ ManagerRuns /\ p.pc = "resume"
        /\ IF n = "none"
           THEN /\ pass' = [pass EXCEPT ![w] = NextRequest([p EXCEPT !.i = p.i + 1])]
                /\ UNCHANGED <<paused, quiescence>>
           ELSE /\ paused' = [paused EXCEPT ![n] = FALSE]
                /\ quiescence' = [quiescence EXCEPT ![n] = "none"]
                /\ pass' = [pass EXCEPT ![w] =
                               NextRequest([p EXCEPT !.i = p.i + 1,
                                                     !.sent = Append(@, Sent("RESUME_NODE", p.affected[p.i]))])]
        /\ UNCHANGED <<kv_store, key_locks, routing_table, replication_factor, up, thr,
                       hashv, cl, node_table, manager_K, heartbeat_times, now, mon, reg,
                       codec>>

\* The registration handler after the reply enters rebalance_on_node_join
\* (manager.cpp:89, 563-661): it takes a snapshot of the table under
\* node_table_mutex, asks the successors for their keys and plans.  A planning loop
\* that does not end keeps the handler in it.
JoinPlan(n) ==
    LET plan == plan_node_join(node_table, manager_K, storage_id(n), kv_store) IN
    /\ ManagerRuns /\ ~MutexHeld
    /\ reg[n] = "rebalance" /\ pass[n].pc = "idle"
    /\ IF plan.hangs
       THEN /\ reg' = [reg EXCEPT ![n] = "hung"]
            /\ UNCHANGED pass
       ELSE /\ pass' = [pass EXCEPT ![n] =
                           StartPass(storage_id(n),
                                     join_affected_nodes(node_table, storage_id(n),
                                                         plan.keys_to_copy,
                                                         plan.keys_to_delete),
                                     plan.keys_to_copy,
                                     plan.keys_to_delete, <<>>)]
            /\ UNCHANGED reg
    /\ UNCHANGED <<kv_store, key_locks, paused, routing_table, replication_factor, up, thr,
                   hashv, quiescence, cl, node_table, manager_K, heartbeat_times, now, mon,
                   codec>>

\* rebalance_on_node_join has returned: the handler broadcasts the table as it is
\* now (manager.cpp:90, 172-208) and ends
JoinBroadcast(n) ==
    /\ ManagerRuns /\ ~MutexHeld
    /\ reg[n] = "rebalance" /\ pass[n].pc = "end"
    /\ Broadcast(node_table, manager_K)
    /\ reg' = [reg EXCEPT ![n] = "idle"]
    /\ pass' = [pass EXCEPT ![n] = IdlePass]
    /\ UNCHANGED <<kv_store, key_locks, paused, up, thr, hashv, quiescence, cl, node_table,
                   manager_K, heartbeat_times, now, mon, codec>>

\* The monitor, inside the block under node_table_mutex, enters
\* rebalance_on_node_failure for the next expired node (manager.cpp:758-760,
\* 415-517) on the table that still holds the entries of the expired nodes.
MonitorPlan ==
    LET p == pass["monitor"]
        todo == IF mon.pc = "expired" THEN IdsInOrder(mon.expired) ELSE p.todo
        plan == plan_node_failure(node_table, manager_K, todo[1], kv_store)
    IN  /\ \/ mon.pc = "expired" /\ p.pc = "idle"
           \/ mon.pc = "pass" /\ p.pc = "end" /\ p.todo # <<>>
        /\ \/ /\ plan.hangs
              /\ mon' = [mon EXCEPT !.pc = "hung"]
              /\ UNCHANGED pass
           \/ /\ plan.out_of_bounds
              /\ mon' = [mon EXCEPT !.pc = "crashed"]
              /\ UNCHANGED pass
           \/ /\ ~plan.hangs
              /\ mon' = [mon EXCEPT !.pc = "pass"]
              /\ pass' = [pass EXCEPT !["monitor"] =
                             StartPass(todo[1], failure_affected_nodes(plan.keys_to_move),
                                       plan.keys_to_move,
                                       <<>>, Tail(todo))]
        /\ UNCHANGED <<kv_store, key_locks, paused, routing_table, replication_factor, up,
                       thr, hashv, quiescence, cl, node_table, manager_K, heartbeat_times,
                       now, reg, codec>>

\* the last rebalance_on_node_failure of the pass has returned: the entries of the
\* expired nodes are erased and node_table_mutex is released (manager.cpp:762-770)
MonitorErase ==
    /\ mon.pc = "pass" /\ pass["monitor"].pc = "end" /\ pass["monitor"].todo = <<>>
    /\ node_table' = SelectSeq(node_table, LAMBDA entry : entry.node_id \notin mon.expired)
    /\ mon' = [mon EXCEPT !.pc = "forget"]
    /\ pass' = [pass EXCEPT !["monitor"] = IdlePass]
    /\ UNCHANGED <<kv_store, key_locks, paused, routing_table, replication_factor, up, thr,
                   hashv, quiescence, cl, manager_K, heartbeat_times, now, reg, codec>>


-----------------------------------------------------------------------------
(* Rebalance passes under writes, a failure and a return *)

\* a put that names a twice: its handler takes the lock of a and is then refused it
PassPuts == {Message("CLIENT_PUT", PutAXAY)}

\* Both nodes have registered, p first, and hold the manager's table.  Each node
\* holds the keys clients have put to it: a on both, b on q.
InitPass ==
    /\ manager_K \in KChoices
    /\ hashv \in RingHashes
    /\ node_table \in UNION {handle_storage_register(table, RegisterPayload("q")).tables :
                               table \in handle_storage_register(<<>>, RegisterPayload("p")).tables}
    /\ kv_store = [n \in Nodes |-> IF n = "p" THEN (KeyA :> <<"x">>)
                                   ELSE (KeyA :> <<"x">> @@ KeyB :> <<"y">>)]
    /\ key_locks = [n \in Nodes |-> EmptyMap]
    /\ paused = [n \in Nodes |-> FALSE]
    /\ routing_table = [n \in Nodes |-> pushed_table(node_table, manager_K).nodes]
    /\ replication_factor = [n \in Nodes |-> manager_K]
    /\ up = [n \in Nodes |-> TRUE]
    /\ thr = [h \in Threads |-> FreeThread]
    /\ quiescence = [n \in Nodes |-> "none"]
    /\ cl = NoClients
    /\ ManagerAtRest
    /\ codec = NoCodec
    /\ pass = NoPass

\* no handler thread of a storage node is under way
NoRequest == \A h \in Threads : thr[h].pc = "free"

\* every node that runs has sent the heartbeat of this period
Stamped ==
    \A n \in Nodes : up[n] => /\ storage_id(n) \in DOMAIN heartbeat_times
                              /\ heartbeat_times[storage_id(n)] = now

\* A client puts to q, one request after the other, as long as no lock is left in
\* the lock table of q; p dies between two requests
\* and two passes, and starts again at any time; q keeps sending its heartbeat
\* every period, and the periods are followed while the monitor waits for the
\* heartbeat of p to expire; the monitor and the registration handlers run their
\* passes request by request.
NextPass ==
    \/ \E h \in Threads : CloseEnv(h)
    \/ \E h \in Threads : NoRequest /\ is_available(key_locks["q"])
                             /\ Receive(h, PassPuts) /\ thr'[1].node = "q"
    \/ \E h \in Threads : RejectPaused(h)
    \/ \E h \in Threads : HandlePut(h)
    \/ \E h \in Threads : TryAcquire(h)
    \/ NoRequest /\ pass = NoPass /\ KillNode("p")
    \/ ~up["p"] /\ HasEntry(node_table, storage_id("p")) /\ mon.pc = "sleep" /\ Stamped /\ Tick
    \/ \E n \in Nodes : Heartbeat(n)
    \/ \E n \in Nodes : StorageRegister(n)
    \/ \E n \in Nodes : JoinPlan(n)
    \/ \E n \in Nodes : JoinBroadcast(n)
    \/ MonitorScan
    \/ MonitorPlan
    \/ MonitorErase
    \/ MonitorForget
    \/ MonitorBroadcast
    \/ \E w \in PassOwners : PauseAffected(w)
    \/ \E w \in PassOwners : CheckAvailability(w)
    \/ \E w \in PassOwners : CopyBatch(w)
    \/ \E w \in PassOwners : DeleteBatch(w)
    \/ \E w \in PassOwners : ResumeAffected(w)

SpecPass == InitPass /\ [][NextPass]_vars


\* the pass of the owner has planned and has not yet sent its last request
InProgress(w) == pass[w].pc \notin {"idle", "end"}

\* C26: at most one rebalance pass, join or failure, is in progress at any time, and
\* no registration and no removal changes node_table while a pass is in progress.
RebalanceExcludesTableChange ==
    /\ [](Cardinality({w \in PassOwners : InProgress(w)}) <= 1)
    /\ [][node_table' # node_table => \A w \in PassOwners : ~InProgress(w)]_vars

\* the requests of a pass that read or change the store of a node
TransferTypes == {"MANAGER_GET", "REPL_PUT", "MANAGER_DELETE"}

\* the request was sent to the address by the pass before its j-th request
SentBefore(p, j, type, address) ==
    \E i \in 1..(j - 1) : p.sent[i] = Sent(type, address)

\* the wait for the address had ended before the j-th request of the pass: by the
\* answer to an AVAILABILITY_CHECK, or at once because nothing listens there
WaitEndedBefore(p, j, address) ==
    \/ SentBefore(p, j, "AVAILABILITY_CHECK", address)
    \/ connect_to_host(address) = "none"

\* every source, destination and delete target of the pass is an affected node
AffectedCoverBatches(p) ==
    /\ \A b \in Range(p.copies) : {b.source, b.dest} \subseteq Range(p.affected)
    /\ \A b \in Range(p.deletes) : b.source \in Range(p.affected)

------------------------------------------------------------------------------
(* Rebalance passes that run to their end *)

\* one request of the pass of an owner, whichever loop the pass is in
PassStep(w) ==
    \/ PauseAffected(w)
    \/ CheckAvailability(w)
    \/ CopyBatch(w)
    \/ DeleteBatch(w)
    \/ ResumeAffected(w)

\* the thread of the owner is inside a pass and the manager process runs: the
\* states in which PassStep(w) is enabled
CanStep(w) == ManagerRuns /\ InProgress(w)

\* NextPass with clients that write only before the clock has advanced and while p
\* runs: no request is under way when p stops
NextCalm ==
    \/ \E h \in Threads : CloseEnv(h)
    \/ \E h \in Threads : NoRequest /\ is_available(key_locks["q"]) /\ up["p"] /\ now = 0
                             /\ Receive(h, PassPuts) /\ thr'[1].node = "q"
    \/ \E h \in Threads : RejectPaused(h)
    \/ \E h \in Threads : HandlePut(h)
    \/ \E h \in Threads : TryAcquire(h)
    \/ NoRequest /\ pass = NoPass /\ KillNode("p")
    \/ ~up["p"] /\ HasEntry(node_table, storage_id("p")) /\ mon.pc = "sleep" /\ Stamped /\ Tick
    \/ \E n \in Nodes : Heartbeat(n)
    \/ \E n \in Nodes : StorageRegister(n)
    \/ \E n \in Nodes : JoinPlan(n)
    \/ \E n \in Nodes : JoinBroadcast(n)
    \/ MonitorScan
    \/ MonitorPlan
    \/ MonitorErase
    \/ MonitorForget
    \/ MonitorBroadcast
    \/ \E w \in PassOwners : PauseAffected(w)
    \/ \E w \in PassOwners : CheckAvailability(w)
    \/ \E w \in PassOwners : CopyBatch(w)
    \/ \E w \in PassOwners : DeleteBatch(w)
    \/ \E w \in PassOwners : ResumeAffected(w)

\* The threads of the manager keep running: a thread inside a pass sends the next
\* request of the pass, since every connect, send and recv of the pass returns and
\* the sleep of the wait ends (manager.cpp:323-412).  This is WF_vars(PassStep(w))
\* for each owner, written with CanStep(w) for ENABLED <<PassStep(w)>>_vars.
SpecPassFair ==
    /\ InitPass /\ [][NextCalm]_vars
    /\ \A w \in PassOwners : ([]<>~CanStep(w)) \/ ([]<><<PassStep(w)>>_vars)

\* C29: the availability wait for one node ends with the max_attempts-th
\* AVAILABILITY_CHECK at the latest, and a pass in progress reaches its end, through
\* its transfers and its resume step, also when a node never answers yes.
AvailabilityWaitBounded ==
    /\ [](\A w \in PassOwners : pass[w].attempt < max_attempts)
    /\ \A w \in PassOwners : InProgress(w) ~> (pass[w].pc = "end")

\* a pass sends its transfers or resumes although an affected node, asked, has not
\* answered yes since it was paused and still holds a lock
AvailabilityWaitBoundedWitness ==
    \E w \in PassOwners, n \in Nodes :
       /\ pass[w].pc \in {"copy", "delete", "resume"}
       /\ \E j \in 1..Len(pass[w].sent) : pass[w].sent[j] = Sent("AVAILABILITY_CHECK", addr(n))
       /\ quiescence[n] = "acked"
       /\ ~is_available(key_locks[n])

\* the positions of the log of a pass that hold a request of one of the types
Positions(p, types) == {j \in 1..Len(p.sent) : p.sent[j].type \in types}

------------------------------------------------------------------------------
(* The order of reply, pass and broadcast *)

\* the handler of a STORAGE_REGISTER of the node has sent its reply and closed the
\* connection in this step
Replied(n) == reg[n] = "idle" /\ reg'[n] = "rebalance"

\* the handler of the node has broadcast the table in this step and ended
Broadcasted(n) == reg[n] = "rebalance" /\ reg'[n] = "idle"

\* C25: a STORAGE_REGISTER is answered with a table that holds the registering node
\* before its pass starts; the one join pass starts after the reply and returns; the
\* one broadcast follows the end of that pass; and the monitor runs one failure pass
\* for each expired node, each of which returns, before it erases and broadcasts.
RegistrationPassBroadcast ==
    /\ [](\A n \in Nodes : reg[n] # "hung")
    /\ [](mon.pc \notin {"hung", "crashed"})
    /\ [][\A n \in Nodes :
             /\ Replied(n) => HasEntry(routing_table'[n], storage_id(n)) /\ pass'[n].pc = "idle"
             /\ (pass[n].pc = "idle" /\ pass'[n].pc # "idle") => reg[n] = "rebalance"
             /\ Broadcasted(n) => pass[n].pc = "end" /\ pass'[n].pc = "idle"]_vars
    /\ [][(mon.pc # "forget" /\ mon'.pc = "forget") =>
             pass["monitor"].pc = "end" /\ pass["monitor"].todo = <<>>]_vars


------------------------------------------------------------------------------
(* The plan of a join on rings of one, two and three physical nodes *)

\* the nodes of the rings planned for: the node that joins, a node that holds a
\* key, and a node of the table that has stopped
PlanNames == <<"p", "q", "r">>

\* the entry of a node for one token
PlanEntry(name, token) == IF name \in Nodes THEN Entry(name, token) ELSE GoneNode(token)

\* the rings of the first one, two or three of the names, VNODES_PER_NODE entries
\* each, in every order of their entries; the tokens are ten apart
RingsOf(names) ==
    UNION {{[j \in 1..(d * VNODES_PER_NODE) |-> PlanEntry(f[j], 10 * j)] :
               f \in {g \in [1..(d * VNODES_PER_NODE) -> {names[i] : i \in 1..d}] :
                         \A i \in 1..d :
                            Cardinality({j \in 1..(d * VNODES_PER_NODE) : g[j] = names[i]})
                               = VNODES_PER_NODE}} :
           d \in 1..Len(names)}

PlanRings == RingsOf(PlanNames)

\* the replication factors planned for
PlanFactors == {1, 2, 3}

\* p has registered and been answered; q holds the key a, whose hash falls before
\* one of the tokens or after the last; no pass has started
InitPlan ==
    /\ manager_K \in PlanFactors
    /\ node_table \in PlanRings
    /\ hashv \in {(KeyA :> 10 * j - 5) : j \in 1..(Len(node_table) + 1)}
    /\ kv_store = [n \in Nodes |-> IF n = "q" THEN (KeyA :> <<"x">>) ELSE EmptyMap]
    /\ key_locks = [n \in Nodes |-> EmptyMap]
    /\ paused = [n \in Nodes |-> FALSE]
    /\ routing_table = [n \in Nodes |-> pushed_table(node_table, manager_K).nodes]
    /\ replication_factor = [n \in Nodes |-> manager_K]
    /\ up = [n \in Nodes |-> TRUE]
    /\ thr = [h \in Threads |-> FreeThread]
    /\ quiescence = [n \in Nodes |-> "none"]
    /\ cl = NoClients
    /\ heartbeat_times = [id \in PhysicalNodes(node_table) |-> 0]
    /\ now = 0
    /\ mon = MonitorAsleep
    /\ reg = [n \in Nodes |-> IF n = "p" THEN "rebalance" ELSE "idle"]
    /\ codec = NoCodec
    /\ pass = NoPass

\* the handler of p's registration runs its pass and broadcasts
NextPlan ==
    \/ JoinPlan("p")
    \/ PauseAffected("p")
    \/ CheckAvailability("p")
    \/ CopyBatch("p")
    \/ DeleteBatch("p")
    \/ ResumeAffected("p")
    \/ JoinBroadcast("p")

SpecPlan == InitPlan /\ [][NextPlan]_vars

\* the ids of the first distinct physical nodes of the key on the ring, at most n
Replicas(key, n) == PreferenceList(node_table, n, consistent_hash(key))

\* C30: a join pass deletes a key only when the new node is among the first K
\* distinct physical nodes of the key on the new ring, and then only at the next
\* distinct physical node after those K, never at one of the K; on a ring that has
\* no such node nothing is deleted.
DeletesOnlyDisplaced ==
    \A w \in Nodes : \A b \in Range(pass[w].deletes) : \A key \in Range(b.keys) :
       LET kept == Replicas(key, manager_K)
           upto == Replicas(key, manager_K + 1)
       IN  /\ storage_id(w) \in Range(kept)
           /\ Len(upto) = manager_K + 1
           /\ b.source = AddressOf(node_table, upto[manager_K + 1])
           /\ \A id \in Range(kept) : b.source # AddressOf(node_table, id)

\* with K = 2 on a ring of three physical nodes the pass of p has deleted a at q,
\* the third distinct physical node of a
DeletesOnlyDisplacedWitness ==
    /\ manager_K = 2
    /\ Cardinality(PhysicalNodes(node_table)) = 3
    /\ pass["p"].pc = "end"
    /\ \E j \in 1..Len(pass["p"].sent) : pass["p"].sent[j] = Sent("MANAGER_DELETE", addr("q"))
    /\ Replicas(KeyA, 3)[3] = storage_id("q")
    /\ KeyA \notin DOMAIN kv_store["q"]


------------------------------------------------------------------------------
(* The failure passes of the monitor on rings of one, two and three physical nodes *)

\* the nodes of the rings: the node r that has stopped, and the nodes q and p
FailNames == <<"r", "q", "p">>

\* the sets of nodes a monitor pass finds expired: r alone, or r and p, which has
\* stopped as well
ExpiredChoices == {{"r"}, {"r", "p"}}

\* the id of a node of the rings
IdOf(name) == PlanEntry(name, 0).node_id

\* The nodes of the ring have registered at time 0 and the table has been pushed.
\* Every node that runs holds the key a when it is one of the first K distinct
\* physical nodes of a, as the puts that reached their K replicas leave it.  The
\* nodes that run have sent their heartbeats; the monitor has woken up and found
\* the heartbeat of the stopped nodes expired.
InitFailPlan ==
    /\ manager_K \in PlanFactors
    /\ node_table \in RingsOf(FailNames)
    /\ hashv \in {(KeyA :> 10 * j - 5) : j \in 1..(Len(node_table) + 1)}
    /\ \E stopped \in ExpiredChoices :
          /\ {IdOf(name) : name \in stopped} \subseteq PhysicalNodes(node_table)
          /\ up = [n \in Nodes |-> n \notin stopped]
          /\ mon = [pc |-> "expired", now |-> HeartbeatTimeout + SleepSeconds,
                    expired |-> {IdOf(name) : name \in stopped}]
    /\ kv_store = [n \in Nodes |->
                      IF up[n] /\ storage_id(n) \in Range(PreferenceList(node_table, manager_K,
                                                                        consistent_hash(KeyA)))
                      THEN (KeyA :> <<"x">>) ELSE EmptyMap]
    /\ key_locks = [n \in Nodes |-> EmptyMap]
    /\ paused = [n \in Nodes |-> FALSE]
    /\ routing_table = [n \in Nodes |-> pushed_table(node_table, manager_K).nodes]
    /\ replication_factor = [n \in Nodes |-> manager_K]
    /\ thr = [h \in Threads |-> FreeThread]
    /\ quiescence = [n \in Nodes |-> "none"]
    /\ cl = NoClients
    /\ now = HeartbeatTimeout + SleepSeconds
    /\ heartbeat_times = [id \in PhysicalNodes(node_table) |->
                             IF id \in mon.expired THEN 0 ELSE now]
    /\ reg = [n \in Nodes |-> "idle"]
    /\ codec = NoCodec
    /\ pass = NoPass

\* the monitor runs the failure pass of each expired node request by request,
\* erases their entries and broadcasts
NextFailPlan ==
    \/ MonitorPlan
    \/ PauseAffected("monitor")
    \/ CheckAvailability("monitor")
    \/ CopyBatch("monitor")
    \/ ResumeAffected("monitor")
    \/ MonitorErase
    \/ MonitorForget
    \/ MonitorBroadcast

SpecFailPlan == InitFailPlan /\ [][NextFailPlan]_vars

\* the keys held by the nodes that run
HeldKeys == UNION {DOMAIN kv_store[n] : n \in Nodes}

\* the first id of the list that is not the id
FirstOther(list, id) ==
    list[CHOOSE j \in 1..Len(list) : list[j] # id /\ \A m \in 1..(j - 1) : list[m] = id]

\* the request of the type to the address is in the log of the pass
HasSent(p, type, address) == \E j \in 1..Len(p.sent) : p.sent[j] = Sent(type, address)

\* C31: in a failure pass on a ring with more than K physical nodes, a key whose
\* first K distinct physical nodes on the ring before the removal include the failed
\* node is moved in one batch, from the first node of its list that is not the
\* failed node to the (K+1)-th distinct physical node; at the end of the pass it has
\* been read at that source and written at that destination where they can be
\* reached; a key whose first K nodes do not include the failed node is in no batch.
FailureMovesToNextReplica ==
    LET p == pass["monitor"]
        failed == p.changed_id
    IN  p.pc # "idle" =>
           \A key \in HeldKeys :
              LET upto == Replicas(key, manager_K + 1)
                  moves == {b \in Range(p.copies) : key \in Range(b.keys)}
                  source == AddressOf(node_table, FirstOther(upto, failed))
                  dest == AddressOf(node_table, upto[manager_K + 1])
              IN  /\ failed \notin Range(Replicas(key, manager_K)) => moves = {}
                  /\ (failed \in Range(Replicas(key, manager_K)) /\ Len(upto) = manager_K + 1) =>
                        /\ moves # {}
                        /\ \A b \in moves : b.source = source /\ b.dest = dest
                        /\ (p.pc = "end" /\ connect_to_host(source) # "none") =>
                              /\ HasSent(p, "MANAGER_GET", source)
                              /\ connect_to_host(dest) # "none" =>
                                    /\ HasSent(p, "REPL_PUT", dest)
                                    /\ key \in DOMAIN kv_store[connect_to_host(dest)]

\* with K = 2 on a ring of three physical nodes, r alone has expired; the pass has
\* read a at the node that is left of its two replicas and written it to the third
\* distinct physical node, which did not hold it
FailureMovesToNextReplicaWitness ==
    \E n \in Nodes :
       /\ manager_K = 2
       /\ mon.expired = {IdOf("r")}
       /\ pass["monitor"].pc = "end"
       /\ IdOf("r") \in Range(Replicas(KeyA, 2))
       /\ Len(Replicas(KeyA, 3)) = 3
       /\ Replicas(KeyA, 3)[3] = storage_id(n)
       /\ HasSent(pass["monitor"], "REPL_PUT", addr(n))
       /\ \E o \in Nodes \ {n} : HasSent(pass["monitor"], "MANAGER_GET", addr(o))
       /\ KeyA \in DOMAIN kv_store[n]


------------------------------------------------------------------------------
(* A table broadcast, node by node *)

\* broadcast_table_to_storage_nodes takes its snapshot of node_table and builds the
\* payload (manager.cpp:172-177): in the handler of a registration after its pass
\* (90), or in the monitor after the erase (787)
BroadcastStart(w) ==
    /\ ManagerRuns
    /\ IF w = "monitor" THEN mon.pc = "broadcast" /\ pass[w].pc = "idle"
       ELSE reg[w] = "rebalance" /\ pass[w].pc = "end"
    /\ pass' = [pass EXCEPT ![w] = [IdlePass EXCEPT !.pc = "push", !.i = 1,
                                                    !.table = node_table]]
    /\ UNCHANGED <<kv_store, key_locks, paused, routing_table, replication_factor, up, thr,
                   hashv, quiescence, cl, node_table, manager_K, heartbeat_times, now, mon,
                   reg, codec>>

\* a round of the loop that pushes to every entry, whether or not its node id has
\* been met
PushTableEveryEntry(w) ==
    LET p == pass[w]
        node == p.table[p.i]
        n == connect_to_host(node.address)
        push == pushed_table(p.table, manager_K)
        next == [p EXCEPT !.i = p.i + 1, !.broadcasted_nodes = @ \cup {node.node_id}]
    IN  /\ ManagerRuns /\ p.pc = "push" /\ p.i <= Len(p.table)
        /\ IF n = "none"
           THEN /\ pass' = [pass EXCEPT ![w] = next]
                /\ UNCHANGED <<routing_table, replication_factor>>
           ELSE /\ routing_table' = [routing_table EXCEPT ![n] = push.nodes]
                /\ replication_factor' = [replication_factor EXCEPT ![n] = push.replication_factor]
                /\ pass' = [pass EXCEPT ![w] =
                               [next EXCEPT !.sent = Append(@, Sent("TABLE_PUSH", node.address))]]
        /\ UNCHANGED <<kv_store, key_locks, paused, up, thr, hashv, quiescence, cl,
                       node_table, manager_K, heartbeat_times, now, mon, reg, codec>>

\* One round of the loop of broadcast_table_to_storage_nodes (manager.cpp:179-207):
\* an entry whose node id has been met is passed over; otherwise the id is noted and
\* the address is connected to; when that fails the loop goes on with the next
\* entry; else TABLE_PUSH is sent, the node takes the table and the factor of the
\* payload (storage.cpp:369-380) and acks.
PushTable(w) ==
    LET p == pass[w]
        node == p.table[p.i]
        n == connect_to_host(node.address)
        push == pushed_table(p.table, manager_K)
        next == [p EXCEPT !.i = p.i + 1, !.broadcasted_nodes = @ \cup {node.node_id}]
    IN  /\ ManagerRuns /\ p.pc = "push" /\ p.i <= Len(p.table)
        /\ IF node.node_id \in p.broadcasted_nodes \/ n = "none"
           THEN /\ pass' = [pass EXCEPT ![w] = next]
                /\ UNCHANGED <<routing_table, replication_factor>>
           ELSE /\ routing_table' = [routing_table EXCEPT ![n] = push.nodes]
                /\ replication_factor' = [replication_factor EXCEPT ![n] = push.replication_factor]
                /\ pass' = [pass EXCEPT ![w] =
                               [next EXCEPT !.sent = Append(@, Sent("TABLE_PUSH", node.address))]]
        /\ UNCHANGED <<kv_store, key_locks, paused, up, thr, hashv, quiescence, cl,
                       node_table, manager_K, heartbeat_times, now, mon, reg, codec>>

\* the loop has ended and the broadcast returns: the handler of a registration ends
\* (manager.cpp:91), the monitor sleeps again (716)
BroadcastEnd(w) ==
    /\ ManagerRuns /\ pass[w].pc = "push" /\ pass[w].i > Len(pass[w].table)
    /\ pass' = [pass EXCEPT ![w] = IdlePass]
    /\ IF w = "monitor" THEN mon' = MonitorAsleep /\ UNCHANGED reg
       ELSE reg' = [reg EXCEPT ![w] = "idle"] /\ UNCHANGED mon
    /\ UNCHANGED <<kv_store, key_locks, paused, routing_table, replication_factor, up, thr,
                   hashv, quiescence, cl, node_table, manager_K, heartbeat_times, now,
                   codec>>

\* p has registered and been answered with the table; q holds the key a and the
\* table as it was before, without the entries of p; no pass has started
InitPush ==
    /\ manager_K \in PlanFactors
    /\ node_table \in PlanRings
    /\ hashv \in {(KeyA :> 10 * j - 5) : j \in 1..(Len(node_table) + 1)}
    /\ kv_store = [n \in Nodes |-> IF n = "q" THEN (KeyA :> <<"x">>) ELSE EmptyMap]
    /\ key_locks = [n \in Nodes |-> EmptyMap]
    /\ paused = [n \in Nodes |-> FALSE]
    /\ routing_table = [n \in Nodes |->
                           IF n = "p" THEN pushed_table(node_table, manager_K).nodes
                           ELSE pushed_table(EntriesOfOthers(node_table, storage_id("p")),
                                             manager_K).nodes]
    /\ replication_factor = [n \in Nodes |-> manager_K]
    /\ up = [n \in Nodes |-> TRUE]
    /\ thr = [h \in Threads |-> FreeThread]
    /\ quiescence = [n \in Nodes |-> "none"]
    /\ cl = NoClients
    /\ heartbeat_times = [id \in PhysicalNodes(node_table) |-> 0]
    /\ now = 0
    /\ mon = MonitorAsleep
    /\ reg = [n \in Nodes |-> IF n = "p" THEN "rebalance" ELSE "idle"]
    /\ codec = NoCodec
    /\ pass = NoPass

\* The handler of p's registration runs its pass and broadcasts node by node; q may
\* stop at any time.
NextPush ==
    \/ JoinPlan("p")
    \/ PauseAffected("p")
    \/ CheckAvailability("p")
    \/ CopyBatch("p")
    \/ DeleteBatch("p")
    \/ ResumeAffected("p")
    \/ BroadcastStart("p")
    \/ PushTable("p")
    \/ BroadcastEnd("p")
    \/ KillNode("q")

SpecPush == InitPush /\ [][NextPush]_vars

\* the ids of the entries of the snapshot the loop of the broadcast has been through
Visited(p) == {p.table[j].node_id : j \in 1..(p.i - 1)}

\* C32: a broadcast sends TABLE_PUSH at most once to an address, only to the
\* addresses of the physical nodes of its snapshot of node_table; once the loop has
\* been through the entries of a physical node, the node has been sent the
\* TABLE_PUSH unless nothing listens at its address, whatever happened with the
\* nodes before it; and a node that was sent it and runs holds the pushed table.
PushOncePerPhysicalNode ==
    \A w \in PassOwners :
       LET p == pass[w] IN
       p.pc = "push" =>
          /\ \A j, m \in 1..Len(p.sent) : p.sent[j] = p.sent[m] => j = m
          /\ \A j \in 1..Len(p.sent) :
                /\ p.sent[j].type = "TABLE_PUSH"
                /\ \E id \in Visited(p) : p.sent[j].to = AddressOf(p.table, id)
          /\ Len(p.sent) <= Cardinality(PhysicalNodes(p.table))
          /\ \A id \in Visited(p) :
                LET n == connect_to_host(AddressOf(p.table, id)) IN
                /\ n # "none" => HasSent(p, "TABLE_PUSH", AddressOf(p.table, id))
                /\ n # "none" =>
                      /\ routing_table[n] = pushed_table(p.table, manager_K).nodes
                      /\ replication_factor[n] = manager_K

\* the loop has been through a table of three physical nodes with two entries
\* each: the first entry is of r, where nothing listens, q has stopped, and p, met
\* after both, has been sent the one TABLE_PUSH of the broadcast
PushOncePerPhysicalNodeWitness ==
    LET p == pass["p"] IN
    /\ p.pc = "push" /\ p.i > Len(p.table)
    /\ Cardinality(PhysicalNodes(p.table)) = 3
    /\ p.table[1].node_id = IdOf("r")
    /\ ~up["q"]
    /\ p.sent = <<Sent("TABLE_PUSH", addr("p"))>>


------------------------------------------------------------------------------
(* The type of the writes of a client *)

\* C33: every write a client has sent to a storage node during put, and waits for
\* the answer of, is a CLIENT_PUT, which the node handles as a primary: under the
\* lock of the key.
ClientWritesAreClientPut ==
    \A c \in Clients :
       cl[c].pc = "put_wait" =>
          /\ thr[cl[c].conn].type = "CLIENT_PUT"
          /\ is_primary(thr[cl[c].conn])


------------------------------------------------------------------------------
(* The validation of a put at the limits of key and value *)

\* a text of n times the character
Text(c, n) == [i \in 1..n |-> c]

\* keys of length 0, 1, the limit, and one more
LimitKeys ==
    {<<>>, KeyA, Text("k", MAX_KEY_BYTE_PER_REQUEST), Text("k", MAX_KEY_BYTE_PER_REQUEST + 1)}

\* values of length 0, 1, the limit, and one more
LimitValues ==
    {<<>>, <<"x">>, Text("v", MAX_VALUE_BYTE_PER_REQUEST),
     Text("v", MAX_VALUE_BYTE_PER_REQUEST + 1)}

\* the pairs of a payload: every key with every value, and a pair without '|'
LimitPairs == {key \o <<"|">> \o value : key \in LimitKeys, value \in LimitValues} \cup {KeyB}

\* the payloads: one pair, or the pair b|y before or after one
LimitPayloads ==
    LimitPairs \cup {PutBY \o <<";">> \o pair : pair \in LimitPairs}
               \cup {pair \o <<";">> \o PutBY : pair \in LimitPairs}

LimitMessages == {Message(type, payload) : type \in {"CLIENT_PUT", "REPL_PUT"},
                                            payload \in LimitPayloads}

\* p runs with an empty store, paused or not, and holds the table of the ring of p
\* and q; the keys hash before the first token
InitLimits ==
    /\ kv_store = [n \in Nodes |-> EmptyMap]
    /\ key_locks = [n \in Nodes |-> EmptyMap]
    /\ \E b \in BOOLEAN : paused = [n \in Nodes |-> b]
    /\ routing_table = [n \in Nodes |-> NodeRing]
    /\ replication_factor = [n \in Nodes |-> 2]
    /\ up = [n \in Nodes |-> n = "p"]
    /\ thr = [h \in Threads |-> FreeThread]
    /\ hashv = [key \in LimitKeys \cup {KeyB} |-> 3]
    /\ quiescence = [n \in Nodes |-> "none"]
    /\ cl = NoClients
    /\ node_table = NodeRing
    /\ manager_K = 2
    /\ ManagerAtRest
    /\ codec = NoCodec
    /\ pass = NoPass

\* One peer at a time sends a put to p and reads the reply.
NextLimits ==
    \/ \E h \in Threads : CloseEnv(h)
    \/ \E h \in Threads : NoRequest /\ Receive(h, LimitMessages)
    \/ \E h \in Threads : RejectPaused(h)
    \/ \E h \in Threads : HandlePut(h)
    \/ \E h \in Threads : TryAcquire(h)
    \/ \E h \in Threads : WriteStore(h)
    \/ \E h \in Threads : FindRoute(h)
    \/ \E h \in Threads : FanoutSend(h)
    \/ \E h \in Threads : ReleaseLock(h)

SpecLimits == InitLimits /\ [][NextLimits]_vars

\* the pair has no '|', or its key, the text before the first '|', is empty or
\* longer than 20, or its value, the text after it, is longer than 1000
BadPair(pair) ==
    \/ \A i \in 1..Len(pair) : pair[i] # "|"
    \/ LET bar == CHOOSE i \in 1..Len(pair) : pair[i] = "|" /\ \A j \in 1..(i - 1) : pair[j] # "|"
       IN  \/ bar = 1
           \/ bar - 1 > 20
           \/ Len(pair) - bar > 1000

\* the thread has a put to handle
PutArrived(h) == thr[h].pc = "dispatch" /\ thr[h].type \in {"CLIENT_PUT", "REPL_PUT"}

\* C34: the handler of a CLIENT_PUT or REPL_PUT whose payload holds a pair without
\* '|', with a key of length 0 or above 20, or with a value longer than 1000 answers
\* ERROR in its first step and ends, with the store and the lock table as they
\* were; when every pair has a key of 1..20 and a value of 0..1000 characters the
\* handler, unless the node refuses the put as paused, goes on to lock or write.
PutValidation ==
    [][\A h \in Threads :
          (PutArrived(h) /\ thr'[h] # thr[h]) =>
             LET pairs == split(thr[h].payload, ";") IN
             IF \E j \in 1..Len(pairs) : BadPair(pairs[j])
             THEN /\ thr'[h].reply.type = "ERROR"
                  /\ thr'[h].pc = "done"
                  /\ kv_store' = kv_store
                  /\ key_locks' = key_locks
             ELSE (pairs # <<>> /\ ~RefusedWhenPaused(thr[h])) =>
                     /\ thr'[h].reply = NoReply
                     /\ thr'[h].pc \in {"lock", "write"}
                     /\ Len(thr'[h].kv_pairs) = Len(pairs)]_vars

\* p holds a key of 20 characters with a value of 1000 from a put answered PUT_OK,
\* and has answered ERROR to a put of b|y followed by a pair with a key of 21
\* characters, of which nothing is stored and no lock is held
PutValidationWitness ==
    \E h \in Threads :
       /\ Text("k", 20) \in DOMAIN kv_store["p"]
       /\ kv_store["p"][Text("k", 20)] = Text("v", 1000)
       /\ thr[h].pc = "done" /\ thr[h].reply.type = "ERROR"
       /\ thr[h].payload = PutBY \o <<";">> \o Text("k", 21) \o <<"|">>
       /\ KeyB \notin DOMAIN kv_store["p"]
       /\ key_locks["p"] = EmptyMap


------------------------------------------------------------------------------
(* The batched read of the manager *)

PutA == <<"a", "|">>
PutB == <<"b", "|">>
KeysBA == <<"b", ";", "a">>

\* writes of a and b, with a value of one character or the empty value, and the
\* reads of the manager for one key and for both in either order
ReadMessages ==
    {Message("REPL_PUT", payload) : payload \in {PutA, PutAX, PutB, PutBY}}
    \cup {Message("MANAGER_GET", payload) : payload \in {KeyA, KeyB, KeysAB, KeysBA}}

\* p is sent writes and reads, one after the other
NextRead ==
    \/ \E h \in Threads : CloseEnv(h)
    \/ \E h \in Threads : NoRequest /\ Receive(h, ReadMessages)
    \/ \E h \in Threads : HandlePut(h)
    \/ \E h \in Threads : WriteStore(h)
    \/ \E h \in Threads : HandleGet(h)

SpecRead == Init /\ [][NextRead]_vars

\* C35: a MANAGER_GET for keys that are all stored is answered GET_OK, and the
\* split of the reply at ';' (get_key_from_node) yields one value per key, the
\* stored value of each key in the order of the request, also when a stored value
\* is empty; when a key is missing the answer is ERROR; the store is as it was.
ManagerGetOneValuePerKey ==
    /\ [](\A h \in Threads :
             LET t == thr[h]
                 keys == PayloadKeys(t.payload)
                 values == split(t.reply.payload, ";")
             IN  (t.type = "MANAGER_GET" /\ t.pc = "done") =>
                    IF \A j \in 1..Len(keys) : keys[j] \in DOMAIN kv_store[t.node]
                    THEN /\ t.reply.type = "GET_OK"
                         /\ Len(values) = Len(keys)
                         /\ \A j \in 1..Len(keys) : values[j] = kv_store[t.node][keys[j]]
                    ELSE t.reply.type = "ERROR")
    /\ [][\A h \in Threads :
             (thr[h].type = "MANAGER_GET" /\ thr[h].pc = "dispatch") => kv_store' = kv_store]_vars


------------------------------------------------------------------------------
(* The store of a node before and after a put *)

\* Receive with a note of the store of the node as the request arrives; the note is
\* read by no handler
ReceiveNoting(h, requests) ==
    /\ FreeSlot(h)
    /\ \E n \in Nodes, m \in requests :
          /\ up[n]
          /\ thr' = [thr EXCEPT ![h] = NewThread(n, m.type, m.payload, "env")
                                          @@ [before |-> kv_store[n]]]
    /\ UNCHANGED <<kv_store, key_locks, paused, routing_table, replication_factor,
                   quiescence, rest_vars>>

\* puts that are stored, puts with a pair without '|', with an empty key, with a
\* value above the limit, and with the key a twice, and the push of a table
ErrorMessages ==
    {Message("CLIENT_PUT", payload) :
        payload \in {PutBX, PutBY, PutAXAY, PutBX \o <<";">> \o KeyA,
                     PutBX \o <<";", "|", "x">>,
                     PutBX \o <<";">> \o PutA \o Text("v", MAX_VALUE_BYTE_PER_REQUEST + 1)}}
    \cup {Message("TABLE_PUSH", TableWithoutP)}

\* p is sent one request after the other
NextErrors ==
    \/ \E h \in Threads : CloseEnv(h)
    \/ \E h \in Threads : NoRequest /\ ReceiveNoting(h, ErrorMessages)
    \/ \E h \in Threads : HandlePut(h)
    \/ \E h \in Threads : TryAcquire(h)
    \/ \E h \in Threads : WriteStore(h)
    \/ \E h \in Threads : FindRoute(h)
    \/ \E h \in Threads : FanoutSend(h)
    \/ \E h \in Threads : FanoutRecv(h)
    \/ \E h \in Threads : ReleaseLock(h)
    \/ \E h \in Threads : TablePush(h)

SpecErrors == InitDispatch /\ [][NextErrors]_vars

\* C36: when the handler of a CLIENT_PUT has answered ERROR, the store of the node
\* is as it was when the request arrived; it differs only when the answer is
\* PUT_OK.
ErrorLeavesStore ==
    \A h \in Threads :
       LET t == thr[h] IN
       (t.type = "CLIENT_PUT" /\ t.pc = "done") =>
          /\ t.reply.type = "ERROR" => kv_store[t.node] = t.before
          /\ kv_store[t.node] # t.before => t.reply.type = "PUT_OK"


------------------------------------------------------------------------------
(* The end of the passes *)

\* a join pass after the registration of p, or the failure passes of the monitor,
\* on rings of one, two and three physical nodes
InitEnds == InitPlan \/ InitFailPlan

NextEnds ==
    \/ JoinPlan("p")
    \/ PauseAffected("p")
    \/ CheckAvailability("p")
    \/ CopyBatch("p")
    \/ DeleteBatch("p")
    \/ ResumeAffected("p")
    \/ JoinBroadcast("p")
    \/ MonitorPlan
    \/ PauseAffected("monitor")
    \/ CheckAvailability("monitor")
    \/ CopyBatch("monitor")
    \/ ResumeAffected("monitor")
    \/ MonitorErase
    \/ MonitorForget
    \/ MonitorBroadcast

SpecEnds == InitEnds /\ [][NextEnds]_vars

\* C37: no join pass and no failure pass enters a planning loop that does not
\* end, whatever the ring, the factor and the keys; the monitor therefore never
\* stays in a failure pass with node_table_mutex held.
PassesEnd ==
    /\ \A n \in Nodes : reg[n] # "hung"
    /\ mon.pc # "hung"


------------------------------------------------------------------------------
(* The deletions of a join pass and its copies *)

\* the nodes that run and hold the key
Holders(stores, key) == {n \in Nodes : up[n] /\ key \in DOMAIN stores[n]}

\* C38: a join pass deletes a key at a node only when the new node holds the key
\* with the value of that node, copied by the same pass; a deletion never leaves
\* fewer nodes with the key than before the pass, which started with one.
DeleteOnlyAfterCopy ==
    [][\A n \in Nodes : \A key \in DOMAIN kv_store[n] :
          key \notin DOMAIN kv_store'[n] =>
             /\ key \in DOMAIN kv_store["p"]
             /\ kv_store["p"][key] = kv_store[n][key]
             /\ HasSent(pass["p"], "REPL_PUT", addr("p"))
             /\ Holders(kv_store', key) # {}]_vars


------------------------------------------------------------------------------
(* The pause of the nodes of a pass while it transfers *)

\* the addresses a pass reads from, writes to and deletes at
TransferAddresses(p) ==
    {p.copies[j].source : j \in 1..Len(p.copies)}
    \cup {p.copies[j].dest : j \in 1..Len(p.copies)}
    \cup {p.deletes[j].source : j \in 1..Len(p.deletes)}

\* the pass has sent a transfer and is still in its copy loop or its delete loop
Transferring(w) ==
    /\ pass[w].pc \in {"copy", "delete"}
    /\ \E j \in 1..Len(pass[w].sent) : pass[w].sent[j].type \in TransferTypes

\* C39: from the first transfer of a pass to the end of its copy and delete loops,
\* every node that listens at an address the pass reads from, writes to or deletes
\* at is paused, also when another pass runs at the same time.
PausedWhileTransferring ==
    \A w \in PassOwners :
       Transferring(w) =>
          \A address \in TransferAddresses(pass[w]) :
             connect_to_host(address) # "none" => paused[connect_to_host(address)]


------------------------------------------------------------------------------
(* The transfers of the failure passes when several nodes have expired *)

\* the addresses of the entries of the expired nodes
ExpiredAddresses == {AddressOf(node_table, id) : id \in mon.expired}

\* C40: no batch of a failure pass of the monitor has an expired node as its
\* source or as its destination, also when several nodes have expired together.
TransfersAmongRemaining ==
    mon.pc = "pass" =>
       \A j \in 1..Len(pass["monitor"].copies) :
          /\ pass["monitor"].copies[j].source \notin ExpiredAddresses
          /\ pass["monitor"].copies[j].dest \notin ExpiredAddresses

====
